---- MODULE Spec2Model ----
(***************************************************************************)
(* The trie node cache (type Database of package trie, held in             *)
(* src/graphql/service.go from line 117 on): the dirty Node Store, the     *)
(* flush list, reference tracking, version-gated pruning, Cap and Commit.  *)
(***************************************************************************)
EXTENDS Integers, Sequences, FiniteSets, TLC

\* ------------------------------------------------------------- bounds
\* Largest value IncrVersion may drive the version counter to.
MaxVersion == 1
\* Largest number of insert calls that store a new entry.
MaxInserts == 3
\* Largest reference count of one child under the meta-root.
MaxRootRefs == 1
\* Largest length of the queue of useless sets.
MaxUseless == 1
\* ethdb.IdealBatchSize, scaled to the node sizes of the model.
IdealBatchSize == 5
\* Largest number of insert calls that store a new entry in the run of the
\* cache with its clean cache.
MaxStored == 2

\* ---------------------------------------------------- program constants
HashLength == 32
cachedNodeSize == 104
cachedNodeChildrenSize == 48
ChildEntrySize == 34
Uint16 == 65536

\* common.Hash{}: the key of the meta-root.
Zero == 0
\* The hashes of the trie nodes the callers work with.
Hash == 1 .. 3
Key == Hash \cup {Zero}

\* ------------------------------------------------------------ nodes
Nil == [t |-> "nil"]
hashNode(h) == [t |-> "hash", h |-> h]
valueNode(v) == [t |-> "value", v |-> v]
rawNode(b) == [t |-> "raw", blob |-> b]
shortNode(k, v) == [t |-> "shortNode", Key |-> k, Val |-> v, flags |-> "dirty"]
fullNode(c) == [t |-> "fullNode", Children |-> c, flags |-> "dirty"]
rawShortNode(k, v) == [t |-> "rawShort", Key |-> k, Val |-> v]
rawFullNode(c) == [t |-> "rawFull", Children |-> c]

\* A full node of 17 slots holding the given children in its first slots.
Slots(cs) == [i \in 1 .. 17 |-> IF i <= Len(cs) THEN cs[i] ELSE Nil]

\* The node each hash stands for (the store is content addressed: one node
\* per hash) and the blob size its caller passes to insert.
TrieNode(h) ==
    CASE h = 1 -> fullNode(Slots(<<hashNode(2), hashNode(3)>>))
      [] h = 2 -> shortNode(<<1>>, valueNode(<<12>>))
      [] h = 3 -> rawNode(<<7, 7>>)

\* simplifyNode: drop the caches and flags of an expanded node.
RECURSIVE simplifyNode(_)
simplifyNode(n) ==
    CASE n.t = "shortNode" -> rawShortNode(n.Key, simplifyNode(n.Val))
      [] n.t = "fullNode" ->
            rawFullNode([i \in 1 .. 17 |->
                IF n.Children[i] = Nil THEN Nil ELSE simplifyNode(n.Children[i])])
      [] OTHER -> n

\* forGatherChildren: the hashnode children inside a collapsed node, in order.
RECURSIVE forGatherChildren(_)
RECURSIVE gatherSlots(_, _)
gatherSlots(c, i) ==
    IF i > 16 THEN <<>> ELSE forGatherChildren(c[i]) \o gatherSlots(c, i + 1)

forGatherChildren(n) ==
    CASE n.t = "rawShort" -> forGatherChildren(n.Val)
      [] n.t = "rawFull" -> gatherSlots(n.Children, 1)
      [] n.t = "hash" -> <<n.h>>
      [] OTHER -> <<>>

\* nodeToBytes: the rlp encoding of a collapsed node. A string of one byte
\* below 128 is itself, any other string follows a 128+length header, a list
\* follows a 192+length header; a hash counts as one byte after its header.
rlpString(b) == IF Len(b) = 1 /\ b[1] < 128 THEN b ELSE <<128 + Len(b)>> \o b
rlpList(payload) == <<192 + Len(payload)>> \o payload

RECURSIVE nodeToBytes(_)
RECURSIVE encodeSlots(_, _)
encodeSlots(c, i) ==
    IF i > 17 THEN <<>> ELSE nodeToBytes(c[i]) \o encodeSlots(c, i + 1)

nodeToBytes(n) ==
    CASE n.t = "rawShort" -> rlpList(rlpString(n.Key) \o nodeToBytes(n.Val))
      [] n.t = "rawFull" -> rlpList(encodeSlots(n.Children, 1))
      [] n.t = "hash" -> <<160, n.h>>
      [] n.t = "value" -> rlpString(n.v)
      [] n.t = "raw" -> n.blob
      [] OTHER -> <<128>>

\* cachedNode.rlp: the blob of a raw node, the encoding of any other.
rlp(entry) == IF entry.node.t = "raw" THEN entry.node.blob ELSE nodeToBytes(entry.node)

\* The blob size a caller passes to insert: the length of the node's encoding.
BlobSizes == [h \in Hash |-> Len(nodeToBytes(simplifyNode(TrieNode(h))))]
BlobSize(h) == BlobSizes[h]

\* ------------------------------------------------------- children maps
\* A children map: nil, or a map from child hash to a count.
NilMap == [isnil |-> TRUE, m |-> <<>>]
EmptyMap == [isnil |-> FALSE, m |-> <<>>]
MapKeys(c) == DOMAIN c.m
MapLen(c) == Cardinality(DOMAIN c.m)
MapIncr(c, k) ==
    [isnil |-> FALSE,
     m |-> [x \in DOMAIN c.m \cup {k} |->
              IF x = k THEN (IF k \in DOMAIN c.m THEN c.m[k] + 1 ELSE 1) ELSE c.m[x]]]

\* The elements of a set of hashes as a sequence (ascending).
RECURSIVE SetToSeq(_)
SetToSeq(S) ==
    IF S = {} THEN <<>>
    ELSE LET x == CHOOSE y \in S : \A z \in S : y <= z
         IN <<x>> \o SetToSeq(S \ {x})

\* cachedNode.forChilds: the explicit children, then the implicit ones.
forChilds(entry) ==
    SetToSeq(MapKeys(entry.children)) \o
        (IF entry.node.t = "raw" THEN <<>> ELSE forGatherChildren(entry.node))

\* ------------------------------------------------------------ Database
\* A database value d is the record of the fields of Database:
\*   dirties, oldest, newest, freshNodes, nodeVersion, useless, dirtiesSize,
\*   childrenSize, cleans (the clean cache, or nil), diskdb, and panic, which
\*   records that a call died (a nil entry dereferenced, a fatal unlock).

\* NewDatabaseWithConfig: the meta-root alone, with an empty children map.
MetaRoot ==
    [node |-> Nil, size |-> 0, parents |-> 0, children |-> EmptyMap,
     flushPrev |-> Zero, flushNext |-> Zero, version |-> 0]

NoCache == [isnil |-> TRUE, m |-> <<>>]
EmptyCache == [isnil |-> FALSE, m |-> <<>>]

\* config.Cache > 0 gives a clean cache, config.Preimages a preimage map.
NewDatabaseWithConfig(cache, pre) ==
    [dirties |-> (Zero :> MetaRoot), oldest |-> Zero, newest |-> Zero,
     freshNodes |-> {}, nodeVersion |-> 0, useless |-> <<>>,
     dirtiesSize |-> 0, childrenSize |-> 0,
     cleans |-> IF cache THEN EmptyCache ELSE NoCache,
     preimages |-> IF pre THEN EmptyMap ELSE NilMap, preimagesSize |-> 0,
     diskdb |-> <<>>, panic |-> FALSE]

\* A write through db.dirties[k]: a nil pointer dereference when k is absent.
setLink(d, k, field, v) ==
    IF k \in DOMAIN d.dirties
    THEN [d EXCEPT !.dirties[k][field] = v]
    ELSE [d EXCEPT !.panic = TRUE]

\* delete(db.dirties, k)
DeleteKey(f, k) == [x \in DOMAIN f \ {k} |-> f[x]]

\* fastcache Set and Del on the clean cache (no-ops on a nil cache).
cleansSet(d, k, enc) ==
    IF d.cleans.isnil THEN d
    ELSE [d EXCEPT !.cleans.m = (k :> enc) @@ d.cleans.m]

cleansDel(d, k) ==
    IF d.cleans.isnil THEN d
    ELSE [d EXCEPT !.cleans.m = DeleteKey(d.cleans.m, k)]

\* An entry that forgets the tail it is queued behind.
newEntryUnanchored(d, size, node) ==
    [node |-> simplifyNode(node), size |-> size % Uint16, parents |-> 0,
     children |-> NilMap, flushPrev |-> Zero, flushNext |-> Zero,
     version |-> d.nodeVersion]

\* The entry insert creates for a new hash.
newEntry(d, size, node) ==
    [node |-> simplifyNode(node), size |-> size % Uint16, parents |-> 0,
     children |-> NilMap, flushPrev |-> d.newest, flushNext |-> Zero,
     version |-> d.nodeVersion]

\* insert: what dirtiesSize grows by (a uint16 sum).
insertSize(entry) == (HashLength + entry.size) % Uint16

\* An insert that forgets to link the old tail to the new entry.
insertUnlinked(d, hash, size, node) ==
    IF hash \in DOMAIN d.dirties THEN d
    ELSE LET entry == newEntry(d, size, node)
             d1 == [d EXCEPT !.dirties = (hash :> entry) @@ d.dirties]
             d2 == IF d.oldest = Zero
                   THEN [d1 EXCEPT !.oldest = hash, !.newest = hash]
                   ELSE [d1 EXCEPT !.newest = hash]
         IN [d2 EXCEPT !.dirtiesSize = @ + insertSize(entry)]

\* An insert that stores its entry whether or not the hash is already held.
insertAlways(d, hash, size, node) ==
    LET entry == newEntry(d, size, node)
        d1 == [d EXCEPT !.dirties = (hash :> entry) @@ d.dirties]
        d2 == IF d.oldest = Zero
              THEN [d1 EXCEPT !.oldest = hash, !.newest = hash]
              ELSE [setLink(d1, d.newest, "flushNext", hash) EXCEPT !.newest = hash]
    IN [d2 EXCEPT !.dirtiesSize = @ + insertSize(entry)]

\* insert: store a new entry at the tail of the flush list.
insert(d, hash, size, node) ==
    IF hash \in DOMAIN d.dirties THEN d
    ELSE LET entry == newEntry(d, size, node)
             d1 == [d EXCEPT !.dirties = (hash :> entry) @@ d.dirties]
             d2 == IF d.oldest = Zero
                   THEN [d1 EXCEPT !.oldest = hash, !.newest = hash]
                   ELSE [setLink(d1, d.newest, "flushNext", hash) EXCEPT !.newest = hash]
         IN [d2 EXCEPT !.dirtiesSize = @ + insertSize(entry)]

insertFreshNode(d, hash) == [d EXCEPT !.freshNodes = @ \cup {hash}]

resetFreshNode(d) == [d EXCEPT !.freshNodes = {}]

IncrVersion(d) == [d EXCEPT !.nodeVersion = @ + 1]

\* A reference that records the child under its parent whether or not the
\* Node Store holds the child.
referenceBlind(d, child, parent) ==
    IF parent \notin DOMAIN d.dirties THEN [d EXCEPT !.panic = TRUE]
    ELSE LET pc == d.dirties[parent].children
         IN IF ~pc.isnil /\ child \in MapKeys(pc) /\ parent # Zero THEN d
            ELSE LET nc == MapIncr(pc, child)
                     d1 == [d EXCEPT !.dirties[parent].children = nc,
                                     !.childrenSize = @
                                         + (IF pc.isnil THEN cachedNodeChildrenSize ELSE 0)
                                         + (IF nc.m[child] = 1 THEN ChildEntrySize ELSE 0)]
                 IN IF child \in DOMAIN d.dirties
                    THEN [d1 EXCEPT !.dirties[child].parents = @ + 1]
                    ELSE d1

\* A reference that adds an edge on every call, whatever the parent.
referenceCounting(d, child, parent) ==
    IF child \notin DOMAIN d.dirties THEN d
    ELSE IF parent \notin DOMAIN d.dirties THEN [d EXCEPT !.panic = TRUE]
    ELSE LET pc == d.dirties[parent].children
             nc == MapIncr(pc, child)
         IN [d EXCEPT !.dirties[child].parents = @ + 1,
                      !.dirties[parent].children = nc,
                      !.childrenSize = @
                          + (IF pc.isnil THEN cachedNodeChildrenSize ELSE 0)
                          + (IF nc.m[child] = 1 THEN ChildEntrySize ELSE 0)]

\* reference: link child under parent.
reference(d, child, parent) ==
    IF child \notin DOMAIN d.dirties THEN d
    ELSE IF parent \notin DOMAIN d.dirties THEN [d EXCEPT !.panic = TRUE]
    ELSE LET pc == d.dirties[parent].children
         IN IF ~pc.isnil /\ child \in MapKeys(pc) /\ parent # Zero THEN d
            ELSE LET nc == MapIncr(pc, child)
                 IN [d EXCEPT !.dirties[child].parents = @ + 1,
                              !.dirties[parent].children = nc,
                              !.childrenSize = @
                                  + (IF pc.isnil THEN cachedNodeChildrenSize ELSE 0)
                                  + (IF nc.m[child] = 1 THEN ChildEntrySize ELSE 0)]

\* A stamp that stops at the node it is given.
referenceVersionShallow(d, hash) ==
    IF hash \notin DOMAIN d.dirties THEN d
    ELSE [d EXCEPT !.dirties[hash].version = d.nodeVersion]

\* referenceVersion: stamp every dirty node below hash with the current version.
RECURSIVE referenceVersion(_, _)
RECURSIVE referenceVersionAll(_, _)
referenceVersionAll(d, hs) ==
    IF hs = <<>> THEN d
    ELSE referenceVersionAll(referenceVersion(d, Head(hs)), Tail(hs))

referenceVersion(d, hash) ==
    IF hash \notin DOMAIN d.dirties THEN d
    ELSE LET d1 == referenceVersionAll(d, forChilds(d.dirties[hash]))
         IN [d1 EXCEPT !.dirties[hash].version = d.nodeVersion]

\* dereference: the removal of a node from the flush list (lines 820-830).
unlink(d, hash, node) ==
    IF hash = d.oldest
    THEN setLink([d EXCEPT !.oldest = node.flushNext], node.flushNext, "flushPrev", Zero)
    ELSE IF hash = d.newest
    THEN setLink([d EXCEPT !.newest = node.flushPrev], node.flushPrev, "flushNext", Zero)
    ELSE setLink(setLink(d, node.flushPrev, "flushNext", node.flushNext),
                 node.flushNext, "flushPrev", node.flushPrev)

\* Two wrong version tests: one prunes nodes of the current version too, one
\* prunes nothing.
isStaleOrCurrent(d, hash) == d.dirties[hash].version <= d.nodeVersion

isStaleReversed(d, hash) == d.dirties[hash].version > d.nodeVersion

\* dereference: whether a node reached by the walk is pruned.
isStale(d, hash) == d.dirties[hash].version < d.nodeVersion

\* dereference: the accounting after the delete (lines 843-846).
derefSizes(d, node) ==
    [d EXCEPT !.dirtiesSize = @ - (HashLength + node.size),
              !.childrenSize = @ - (IF node.children.isnil THEN 0
                                    ELSE cachedNodeChildrenSize)]

\* A delete that reports every node it prunes, raw or not, to the clear
\* callback.
derefDeleteRaw(st, hash, node) ==
    LET d1 == [st.d EXCEPT !.dirties = DeleteKey(@, hash)]
    IN [st EXCEPT !.d = derefSizes(cleansDel(d1, hash), node),
                  !.cleared = @ \cup {hash}]

\* dereference: the delete of a pruned node and the clear callback, which
\* drops a non-raw node from the clean cache and records its hash.
derefDelete(st, hash, node) ==
    LET d1 == [st.d EXCEPT !.dirties = DeleteKey(@, hash)]
        raw == node.node.t = "raw"
        d2 == IF raw THEN d1 ELSE cleansDel(d1, hash)
    IN [st EXCEPT !.d = derefSizes(d2, node),
                  !.cleared = IF raw THEN @ ELSE @ \cup {hash}]

\* The time budget of one Dereference call, as the number of nodes the walk
\* may still visit before the clock passes start+DereferenceTimeLimit;
\* NoLimit when the call ends in time.
NoLimit == 0 - 1

\* dereference over st = [d, budget, cleared].
RECURSIVE dereference(_, _)
RECURSIVE dereferenceAll(_, _)
dereferenceAll(st, hs) ==
    IF hs = <<>> THEN st
    ELSE dereferenceAll(dereference(st, Head(hs)), Tail(hs))

\* A walk that prunes fresh nodes like any other.
dereferenceFreshToo(st, hash) ==
    IF hash \notin DOMAIN st.d.dirties THEN st
    ELSE IF st.budget = 0 THEN st
    ELSE LET node == st.d.dirties[hash]
             st0 == [st EXCEPT !.budget = IF @ = NoLimit THEN @ ELSE @ - 1]
         IN IF isStale(st.d, hash)
            THEN LET st1 == [st0 EXCEPT !.d = unlink(st0.d, hash, node)]
                     st2 == dereferenceAll(st1, forChilds(node))
                 IN derefDelete(st2, hash, node)
            ELSE st0

dereference(st, hash) ==
    IF hash \in st.d.freshNodes THEN st
    ELSE IF hash \notin DOMAIN st.d.dirties THEN st
    ELSE IF st.budget = 0 THEN st
    ELSE LET node == st.d.dirties[hash]
             st0 == [st EXCEPT !.budget = IF @ = NoLimit THEN @ ELSE @ - 1]
         IN IF isStale(st.d, hash)
            THEN LET st1 == [st0 EXCEPT !.d = unlink(st0.d, hash, node)]
                     st2 == dereferenceAll(st1, forChilds(node))
                 IN derefDelete(st2, hash, node)
            ELSE st0

\* A Dereference that walks from whatever root it is given.
DereferenceUnguarded(d, root, budget) ==
    dereference([d |-> d, budget |-> budget, cleared |-> {}], root).d

\* Dereference: refused for the meta-root; else the walk under the lock.
Dereference(d, root, budget) ==
    IF root = Zero THEN d
    ELSE dereference([d |-> d, budget |-> budget, cleared |-> {}], root).d

\* DereferenceDB: as Dereference, and the cleared hashes join the useless queue.
DereferenceDB(d, root, budget) ==
    IF root = Zero THEN d
    ELSE LET st == dereference([d |-> d, budget |-> budget, cleared |-> {}], root)
         IN [st.d EXCEPT !.useless = Append(@, st.cleared)]

\* ------------------------------------------------------- disk batches
\* ethdb.Batch.Write: every buffered put and delete reaches the disk.
RECURSIVE diskWrite(_, _)
diskWrite(disk, ops) ==
    IF ops = <<>> THEN disk
    ELSE LET o == Head(ops)
         IN diskWrite(IF o.del THEN DeleteKey(disk, o.k) ELSE (o.k :> o.v) @@ disk,
                      Tail(ops))

\* rawdb.WriteTrieNode: a put of the blob under the hash.
batchPut(ops, k, v) == Append(ops, [del |-> FALSE, k |-> k, v |-> v])
batchDelete(ops, k) == Append(ops, [del |-> TRUE, k |-> k, v |-> <<>>])

\* The hashes a batch holds.
BatchKeys(ops) == {ops[i].k : i \in DOMAIN ops}

\* ethdb.Batch.ValueSize: the bytes buffered (a delete counts one).
RECURSIVE ValueSize(_)
ValueSize(ops) ==
    IF ops = <<>> THEN 0
    ELSE (IF Head(ops).del THEN 1 ELSE Len(Head(ops).v)) + ValueSize(Tail(ops))

\* ------------------------------------------------------------ Size, Cap
\* The metadata-inclusive size Cap starts from and Size reports; the call
\* dies on a missing meta-root.
totalSize(d) ==
    d.dirtiesSize + (Cardinality(DOMAIN d.dirties) - 1) * cachedNodeSize
        + d.childrenSize - MapLen(d.dirties[Zero].children) * ChildEntrySize

Size(d) == IF Zero \in DOMAIN d.dirties THEN totalSize(d) ELSE 0

\* What flushing one node takes off the running size (lines 940-943).
capNodeCost(node) ==
    HashLength + node.size + cachedNodeSize
        + (IF node.children.isnil THEN 0
           ELSE cachedNodeChildrenSize + MapLen(node.children) * ChildEntrySize)

\* Cap, lines 922-945: the scan of the flush list from db.oldest. cs holds the
\* cursor, the running size, the batch, the disk, the Write calls made, the
\* hashes written, err, and panic for the RUnlock of a lock the call never
\* took (line 932).
RECURSIVE capScan(_, _, _, _)
capScan(cs, d, limit, failAt) ==
    IF cs.err \/ cs.panic \/ ~(cs.size > limit /\ cs.oldest # Zero) THEN cs
    ELSE IF cs.oldest \notin DOMAIN d.dirties THEN [cs EXCEPT !.panic = TRUE]
    ELSE LET node == d.dirties[cs.oldest]
             ops == batchPut(cs.batch, cs.oldest, rlp(node))
             full == ValueSize(ops) >= IdealBatchSize
             fails == full /\ cs.writes + 1 = failAt
             next == [cs EXCEPT
                        !.batch = IF full THEN <<>> ELSE ops,
                        !.wrote = IF full THEN @ \cup BatchKeys(ops) ELSE @,
                        !.disk = IF full THEN diskWrite(@, ops) ELSE @,
                        !.writes = IF full THEN @ + 1 ELSE @,
                        !.size = @ - capNodeCost(node),
                        !.oldest = node.flushNext]
         IN IF fails
            THEN [cs EXCEPT !.batch = ops, !.writes = @ + 1, !.err = TRUE, !.panic = TRUE]
            ELSE capScan(next, d, limit, failAt)

\* Cap, lines 962-974: drop the flushed entries, from db.oldest to the cursor.
capDrop(d, node) ==
    [d EXCEPT !.dirties = DeleteKey(@, d.oldest),
              !.oldest = node.flushNext,
              !.dirtiesSize = @ - (HashLength + node.size),
              !.childrenSize = @ - (IF node.children.isnil THEN 0
                                    ELSE cachedNodeChildrenSize
                                         + MapLen(node.children) * ChildEntrySize)]

\* A removal that leaves the new head of the flush list pointing back at the
\* entry dropped before it.
RECURSIVE capRemoveDangling(_, _)
capRemoveDangling(d, cursor) ==
    IF d.panic \/ d.oldest = cursor THEN d
    ELSE IF d.oldest \notin DOMAIN d.dirties THEN [d EXCEPT !.panic = TRUE]
    ELSE capRemoveDangling(capDrop(d, d.dirties[d.oldest]), cursor)

RECURSIVE capRemove(_, _)
capRemove(d, cursor) ==
    IF d.panic \/ d.oldest = cursor
    THEN IF ~d.panic /\ d.oldest # Zero THEN setLink(d, d.oldest, "flushPrev", Zero) ELSE d
    ELSE IF d.oldest \notin DOMAIN d.dirties THEN [d EXCEPT !.panic = TRUE]
    ELSE capRemove(capDrop(d, d.dirties[d.oldest]), cursor)

\* Cap, lines 896-953: the scan and the last Write, before the lock is taken.
\* failAt is the Write call that fails (0: none does).
capFlush(d, limit, failAt) ==
    IF Zero \notin DOMAIN d.dirties
    THEN [oldest |-> d.oldest, size |-> 0, batch |-> <<>>, disk |-> d.diskdb,
          writes |-> 0, err |-> FALSE, panic |-> TRUE, wrote |-> {}]
    ELSE LET cs == capScan([oldest |-> d.oldest, size |-> totalSize(d), batch |-> <<>>,
                            disk |-> d.diskdb, writes |-> 0, err |-> FALSE,
                            panic |-> FALSE, wrote |-> {}], d, limit, failAt)
         IN IF cs.err \/ cs.panic THEN cs
            ELSE IF cs.writes + 1 = failAt THEN [cs EXCEPT !.writes = @ + 1, !.err = TRUE]
            ELSE [cs EXCEPT !.writes = @ + 1, !.disk = diskWrite(@, cs.batch),
                            !.wrote = @ \cup BatchKeys(cs.batch), !.batch = <<>>]

\* Cap: the whole call; the result is the database and the error.
Cap(d, limit, failAt) ==
    LET cs == capFlush(d, limit, failAt)
        d1 == [d EXCEPT !.diskdb = cs.disk, !.panic = cs.panic]
    IN IF cs.err \/ cs.panic
       THEN [d |-> d1, err |-> cs.err, wrote |-> cs.wrote, pending |-> BatchKeys(cs.batch)]
       ELSE [d |-> capRemove(d1, cs.oldest), err |-> FALSE, wrote |-> cs.wrote,
             pending |-> {}]

\* CapNode, lines 852-865: the scan under the read lock; the cursor it ends
\* on, and whether the scan died on a missing entry.
RECURSIVE capNodeScan(_, _, _, _)
capNodeScan(d, limit, size, oldest) ==
    IF ~(size > limit /\ oldest # Zero) THEN [oldest |-> oldest, panic |-> FALSE]
    ELSE IF oldest \notin DOMAIN d.dirties THEN [oldest |-> oldest, panic |-> TRUE]
    ELSE capNodeScan(d, limit, size - (3 * HashLength + d.dirties[oldest].size),
                     d.dirties[oldest].flushNext)

capNodeCursor(d, limit) ==
    capNodeScan(d, limit,
        d.dirtiesSize + (Cardinality(DOMAIN d.dirties) - 1) * 2 * HashLength,
        d.oldest)

capNodeDrop(d, node) ==
    [d EXCEPT !.dirties = DeleteKey(@, d.oldest),
              !.oldest = node.flushNext,
              !.dirtiesSize = @ - (HashLength + node.size)]

\* CapNode, lines 868-876: the removal under the write lock.
RECURSIVE capNodeRemove(_, _)
capNodeRemove(d, cursor) ==
    IF d.panic \/ d.oldest = cursor THEN d
    ELSE IF d.oldest \notin DOMAIN d.dirties THEN [d EXCEPT !.panic = TRUE]
    ELSE capNodeRemove(capNodeDrop(d, d.dirties[d.oldest]), cursor)

CapNode(d, limit) ==
    LET c == capNodeCursor(d, limit)
    IN IF c.panic THEN [d EXCEPT !.panic = TRUE] ELSE capNodeRemove(d, c.oldest)

\* ------------------------------------------------------------ preimages
\* The disk key of a preimage: derived from the hash and apart from every
\* hash a trie node is stored under.
preimageKey(hash) == 100 + hash

\* rawdb.WritePreimages: a put of every tracked preimage under its key.
RECURSIVE writePreimagesAll(_, _, _)
writePreimagesAll(ops, m, hs) ==
    IF hs = <<>> THEN ops
    ELSE writePreimagesAll(batchPut(ops, preimageKey(Head(hs)), m[Head(hs)]), m, Tail(hs))

WritePreimages(ops, m) == writePreimagesAll(ops, m, SetToSeq(DOMAIN m))

\* rawdb.ReadPreimage: the bytes stored under the key, or nil.
ReadPreimage(disk, hash) ==
    IF preimageKey(hash) \in DOMAIN disk THEN disk[preimageKey(hash)] ELSE <<>>

\* insertPreimage: track a preimage not yet tracked.
insertPreimage(d, hash, preimage) ==
    IF d.preimages.isnil THEN d
    ELSE IF hash \in DOMAIN d.preimages.m THEN d
    ELSE [d EXCEPT !.preimages.m = (hash :> preimage) @@ @,
                   !.preimagesSize = @ + HashLength + Len(preimage)]

\* preimage: the tracked preimage, else what the disk holds; nil when
\* preimages are disabled.
preimage(d, hash) ==
    IF d.preimages.isnil THEN <<>>
    ELSE IF hash \in DOMAIN d.preimages.m /\ d.preimages.m[hash] # <<>>
    THEN d.preimages.m[hash]
    ELSE ReadPreimage(d.diskdb, hash)

\* ---------------------------------------------------------------- Commit
\* cleaner.Put, lines 1121-1131: the removal of a node from the flush list.
cleanerUnlink(d, hash, node) ==
    IF hash = d.oldest
    THEN setLink([d EXCEPT !.oldest = node.flushNext], node.flushNext, "flushPrev", Zero)
    ELSE IF hash = d.newest
    THEN setLink([d EXCEPT !.newest = node.flushPrev], node.flushPrev, "flushNext", Zero)
    ELSE setLink(setLink(d, node.flushPrev, "flushNext", node.flushNext),
                 node.flushNext, "flushPrev", node.flushPrev)

\* cleaner.Put, lines 1133-1137: the delete and the accounting; the children
\* tracking is taken off dirtiesSize.
cleanerDelete(d, hash, node) ==
    [d EXCEPT !.dirties = DeleteKey(@, hash),
              !.dirtiesSize = @ - (HashLength + node.size)
                                - (IF node.children.isnil THEN 0
                                   ELSE cachedNodeChildrenSize
                                        + MapLen(node.children) * ChildEntrySize)]

\* A cleaner that uncaches whatever it is told.
cleanerPutUncaching(d, hash, enc, uncache) ==
    IF hash \notin DOMAIN d.dirties THEN d
    ELSE LET node == d.dirties[hash]
         IN cleansSet(cleanerDelete(cleanerUnlink(d, hash, node), hash, node), hash, enc)

\* cleaner.Put: uncache a written node, then feed the clean cache.
cleanerPut(d, hash, enc, uncache) ==
    IF uncache /\ hash \notin DOMAIN d.dirties THEN d
    ELSE IF uncache
    THEN LET node == d.dirties[hash]
         IN cleansSet(cleanerDelete(cleanerUnlink(d, hash, node), hash, node), hash, enc)
    ELSE cleansSet(d, hash, enc)

\* ethdb.Batch.Replay: the cleaner sees every put in write order.
RECURSIVE Replay(_, _, _)
Replay(d, ops, uncache) ==
    IF ops = <<>> THEN d
    ELSE Replay(cleanerPut(d, Head(ops).k, Head(ops).v, uncache), Tail(ops), uncache)

\* A commit that replays a full batch to the cleaner whether or not its Write
\* succeeded.
commitFlushUnchecked(ct, uncache, failAt) ==
    IF ValueSize(ct.batch) >= IdealBatchSize
    THEN LET fails == ct.writes + 1 = failAt
             disk == IF fails THEN ct.d.diskdb ELSE diskWrite(ct.d.diskdb, ct.batch)
         IN [ct EXCEPT !.writes = @ + 1, !.err = fails,
                       !.batch = IF fails THEN @ ELSE <<>>,
                       !.wrote = IF fails THEN @ ELSE @ \cup BatchKeys(ct.batch),
                       !.d = Replay([ct.d EXCEPT !.diskdb = disk], ct.batch, uncache)]
    ELSE ct

\* commit, lines 1087-1095: the Write of a full batch and its replay.
\* ct = [d, batch, writes, err, wrote]; failAt is the Write call that fails,
\* wrote the hashes of the batches written so far.
commitFlush(ct, uncache, failAt) ==
    IF ValueSize(ct.batch) >= IdealBatchSize
    THEN IF ct.writes + 1 = failAt
         THEN [ct EXCEPT !.writes = @ + 1, !.err = TRUE]
         ELSE [ct EXCEPT !.writes = @ + 1, !.batch = <<>>,
                         !.wrote = @ \cup BatchKeys(ct.batch),
                         !.d = Replay([ct.d EXCEPT !.diskdb = diskWrite(@, ct.batch)],
                                      ct.batch, uncache)]
    ELSE ct

\* commit: the fresh dirty nodes below hash, children first.
RECURSIVE commit(_, _, _, _)
RECURSIVE commitAll(_, _, _, _)
commitAll(ct, hs, uncache, failAt) ==
    IF hs = <<>> \/ ct.err THEN ct
    ELSE commitAll(commit(ct, Head(hs), uncache, failAt), Tail(hs), uncache, failAt)

\* A commit that writes a node before the nodes below it.
commitPreOrder(ct, hash, uncache, failAt) ==
    IF hash \notin ct.d.freshNodes THEN ct
    ELSE IF hash \notin DOMAIN ct.d.dirties THEN ct
    ELSE LET node == ct.d.dirties[hash]
             c1 == commitFlush([ct EXCEPT !.batch = batchPut(@, hash, rlp(node))],
                               uncache, failAt)
         IN IF c1.err THEN c1
            ELSE commitAll(c1, forChilds(node), uncache, failAt)

commit(ct, hash, uncache, failAt) ==
    IF hash \notin ct.d.freshNodes THEN ct
    ELSE IF hash \notin DOMAIN ct.d.dirties THEN ct
    ELSE LET node == ct.d.dirties[hash]
             c1 == commitAll(ct, forChilds(node), uncache, failAt)
         IN IF c1.err THEN c1
            ELSE commitFlush([c1 EXCEPT !.batch = batchPut(@, hash, rlp(node))],
                             uncache, failAt)

\* A Commit that uncaches the last batch whether or not its Write succeeded.
commitFinishUnchecked(ct, uncache, failAt) ==
    LET fails == ct.writes + 1 = failAt
        disk == IF fails THEN ct.d.diskdb ELSE diskWrite(ct.d.diskdb, ct.batch)
    IN [ct EXCEPT !.writes = @ + 1, !.err = fails,
                  !.batch = IF fails THEN @ ELSE <<>>,
                  !.wrote = IF fails THEN @ ELSE @ \cup BatchKeys(ct.batch),
                  !.d = resetFreshNode(Replay([ct.d EXCEPT !.diskdb = disk],
                                              ct.batch, uncache))]

\* Commit, lines 1040-1042: a new, empty preimage map unless preimages are
\* disabled.
resetPreimages(d) ==
    IF d.preimages.isnil THEN d
    ELSE [d EXCEPT !.preimages = EmptyMap, !.preimagesSize = 0]

\* A Commit that leaves the fresh marks as they are.
commitFinishKeepsFresh(ct, uncache, failAt) ==
    IF ct.writes + 1 = failAt
    THEN [ct EXCEPT !.writes = @ + 1, !.err = TRUE]
    ELSE [ct EXCEPT !.writes = @ + 1, !.batch = <<>>,
                    !.wrote = @ \cup BatchKeys(ct.batch),
                    !.d = resetPreimages(
                              Replay([ct.d EXCEPT !.diskdb = diskWrite(@, ct.batch)],
                                     ct.batch, uncache))]

\* Commit, lines 1027-1044: the last Write, its replay, and the reset of the
\* preimages and of the fresh marks.
commitFinish(ct, uncache, failAt) ==
    IF ct.writes + 1 = failAt
    THEN [ct EXCEPT !.writes = @ + 1, !.err = TRUE]
    ELSE [ct EXCEPT !.writes = @ + 1, !.batch = <<>>,
                    !.wrote = @ \cup BatchKeys(ct.batch),
                    !.d = resetFreshNode(resetPreimages(
                              Replay([ct.d EXCEPT !.diskdb = diskWrite(@, ct.batch)],
                                     ct.batch, uncache)))]

\* A flush of the preimages that goes on after a failed Write.
commitPreimagesUnchecked(d, failAt) ==
    LET ops == IF d.preimages.isnil THEN <<>> ELSE WritePreimages(<<>>, d.preimages.m)
        n == IF d.preimages.isnil THEN 0
             ELSE IF ValueSize(ops) > IdealBatchSize THEN 2 ELSE 1
        ok == n > 0 /\ failAt \notin 1 .. n
    IN [d |-> IF ok THEN [d EXCEPT !.diskdb = diskWrite(@, ops)] ELSE d,
        batch |-> <<>>, writes |-> n, err |-> FALSE, wrote |-> {}]

\* Commit, lines 1004-1018: the tracked preimages go to the disk first, in
\* one Write when the batch is within IdealBatchSize, else in a Write of the
\* batch and a Write of the batch emptied by the Reset. The result is a ct
\* as commit takes it; wrote counts trie nodes only.
commitPreimages(d, failAt) ==
    LET ct == [d |-> d, batch |-> <<>>, writes |-> 0, err |-> FALSE, wrote |-> {}]
    IN IF d.preimages.isnil THEN ct
       ELSE LET ops == WritePreimages(<<>>, d.preimages.m)
                written == [d EXCEPT !.diskdb = diskWrite(@, ops)]
            IN IF ValueSize(ops) > IdealBatchSize
               THEN IF failAt = 1 THEN [ct EXCEPT !.writes = 1, !.err = TRUE]
                    ELSE IF failAt = 2
                    THEN [ct EXCEPT !.d = written, !.writes = 2, !.err = TRUE]
                    ELSE [ct EXCEPT !.d = written, !.writes = 2]
               ELSE IF failAt = 1 THEN [ct EXCEPT !.writes = 1, !.err = TRUE]
                    ELSE [ct EXCEPT !.d = written, !.writes = 1]

\* A Commit that clears the fresh marks on its way out of a failed Write.
CommitForgetful(d, root, uncache, failAt) ==
    LET c1 == commit([d |-> d, batch |-> <<>>, writes |-> 0, err |-> FALSE,
                      wrote |-> {}],
                     root, uncache, failAt)
    IN IF c1.err THEN [c1 EXCEPT !.d = resetFreshNode(c1.d)]
       ELSE LET c2 == commitFinish(c1, uncache, failAt)
            IN [c2 EXCEPT !.d = resetFreshNode(c2.d)]

\* Commit: the whole call; the result is the database, the error, and the
\* batch left unwritten by a failed Write.
Commit(d, root, uncache, failAt) ==
    LET c0 == commitPreimages(d, failAt)
    IN IF c0.err THEN c0
       ELSE LET c1 == commit(c0, root, uncache, failAt)
            IN IF c1.err THEN c1 ELSE commitFinish(c1, uncache, failAt)

\* ----------------------------------------------------------- lookups, GC
\* Node: clean cache, then the dirty store, then the disk, which feeds the
\* clean cache. The result is the database, the blob and the error.
NotFound(d) == [d |-> d, enc |-> <<>>, err |-> TRUE]

\* A lookup that never falls through to the disk.
NodeMemoryOnly(d, hash) ==
    IF hash = Zero THEN NotFound(d)
    ELSE IF ~d.cleans.isnil /\ hash \in DOMAIN d.cleans.m
    THEN [d |-> d, enc |-> d.cleans.m[hash], err |-> FALSE]
    ELSE IF hash \in DOMAIN d.dirties
    THEN [d |-> d, enc |-> rlp(d.dirties[hash]), err |-> FALSE]
    ELSE NotFound(d)

\* A lookup that serves the zero hash like any other.
NodeZeroServed(d, hash) ==
    IF ~d.cleans.isnil /\ hash \in DOMAIN d.cleans.m
    THEN [d |-> d, enc |-> d.cleans.m[hash], err |-> FALSE]
    ELSE IF hash \in DOMAIN d.dirties
    THEN [d |-> d, enc |-> rlp(d.dirties[hash]), err |-> FALSE]
    ELSE IF hash \in DOMAIN d.diskdb /\ Len(d.diskdb[hash]) # 0
    THEN [d |-> cleansSet(d, hash, d.diskdb[hash]), enc |-> d.diskdb[hash], err |-> FALSE]
    ELSE NotFound(d)

Node(d, hash) ==
    IF hash = Zero THEN NotFound(d)
    ELSE IF ~d.cleans.isnil /\ hash \in DOMAIN d.cleans.m
    THEN [d |-> d, enc |-> d.cleans.m[hash], err |-> FALSE]
    ELSE IF hash \in DOMAIN d.dirties
    THEN [d |-> d, enc |-> rlp(d.dirties[hash]), err |-> FALSE]
    ELSE IF hash \in DOMAIN d.diskdb /\ Len(d.diskdb[hash]) # 0
    THEN [d |-> cleansSet(d, hash, d.diskdb[hash]), enc |-> d.diskdb[hash], err |-> FALSE]
    ELSE NotFound(d)

\* UselessGC, lines 749-769: delete from disk the queued hashes that are not
\* dirty; the result of the Write is dropped.
RECURSIVE uselessDeletes(_, _, _)
uselessDeletes(d, hs, ops) ==
    IF hs = <<>> THEN ops
    ELSE uselessDeletes(d, Tail(hs),
             IF Head(hs) \in DOMAIN d.dirties THEN ops ELSE batchDelete(ops, Head(hs)))

RECURSIVE uselessSweep(_, _, _, _)
uselessSweep(d, num, total, ops) ==
    IF total >= num \/ total >= Len(d.useless) THEN [total |-> total, ops |-> ops]
    ELSE uselessSweep(d, num, total + 1,
                      uselessDeletes(d, SetToSeq(d.useless[total + 1]), ops))

UselessGC(d, num, fails) ==
    LET sw == uselessSweep(d, num, 0, <<>>)
    IN [d EXCEPT !.useless = SubSeq(@, sw.total + 1, Len(@)),
                 !.diskdb = IF fails THEN @ ELSE diskWrite(@, sw.ops)]

ResetUseless(d) == [d EXCEPT !.useless = <<>>]

\* ------------------------------------------------------------ the state
VARIABLES
    dirties,       \* db.dirties: hash -> cachedNode, the meta-root under Zero
    oldest,        \* db.oldest: head of the flush list
    newest,        \* db.newest: tail of the flush list
    freshNodes,    \* db.freshNodes
    nodeVersion,   \* db.nodeVersion
    useless,       \* db.useless: the queue of sets awaiting the disk sweep
    dirtiesSize,   \* db.dirtiesSize
    childrenSize,  \* db.childrenSize
    cleans,        \* db.cleans: the clean cache, or nil
    preimages,     \* db.preimages: hash -> preimage, or nil
    preimagesSize, \* db.preimagesSize
    diskdb,        \* db.diskdb: hash -> blob
    panic,         \* the process died inside a call
    inserts,       \* entries stored by insert so far
    last,          \* the call made last, and what it reported
    rw,            \* db.lock: whether it is write-held, and its read holders
    procs          \* the concurrent callers: where each is in its call

dbvars == <<dirties, oldest, newest, freshNodes, nodeVersion, useless, dirtiesSize,
            childrenSize, cleans, preimages, preimagesSize, diskdb, panic>>

vars == <<dbvars, inserts, last, rw, procs>>

DB ==
    [dirties |-> dirties, oldest |-> oldest, newest |-> newest,
     freshNodes |-> freshNodes, nodeVersion |-> nodeVersion, useless |-> useless,
     dirtiesSize |-> dirtiesSize, childrenSize |-> childrenSize,
     cleans |-> cleans, preimages |-> preimages, preimagesSize |-> preimagesSize,
     diskdb |-> diskdb, panic |-> panic]

Store(d) ==
    /\ dirties' = d.dirties
    /\ oldest' = d.oldest
    /\ newest' = d.newest
    /\ freshNodes' = d.freshNodes
    /\ nodeVersion' = d.nodeVersion
    /\ useless' = d.useless
    /\ dirtiesSize' = d.dirtiesSize
    /\ childrenSize' = d.childrenSize
    /\ cleans' = d.cleans
    /\ preimages' = d.preimages
    /\ preimagesSize' = d.preimagesSize
    /\ diskdb' = d.diskdb
    /\ panic' = d.panic

\* What the last call did, when it removed entries from the Node Store: its
\* name and whether it returned an error. Any other call leaves Quiet.
Quiet == [op |-> "quiet", err |-> FALSE]

Call(op, d, err) ==
    IF DOMAIN d.dirties # DOMAIN dirties THEN [op |-> op, err |-> err] ELSE Quiet

\* db.lock, free: not write-held, no read holder.
Unlocked == [w |-> FALSE, r |-> 0]

\* The concurrent callers: one pruning writer, two readers, one stamper.
Writer == "w"
Readers == {"r1", "r2"}
Stampers == {"s"}
Capper == "c"
Procs == {Writer, Capper} \cup Readers \cup Stampers

\* The result slot of a reader that has read nothing yet.
NoResult == [err |-> FALSE, enc |-> <<>>]

\* A caller outside any call. op and arg are the call and its hash, stack the
\* pending work of a dereference, cleared the hashes its clear callback
\* collected (for Cap: the entries it removed), late whether its clock passed
\* start+DereferenceTimeLimit, wrote the hashes a Cap wrote to disk, res what
\* a reader holds, seen the queue an append has read.
Idle == [pc |-> "idle", op |-> "none", arg |-> Zero, stack |-> <<>>,
         cleared |-> {}, late |-> FALSE, wrote |-> {}, res |-> NoResult,
         seen |-> <<>>]

\* A call that runs alone from start to end leaves the lock and the callers
\* as they are.
Alone == UNCHANGED <<rw, procs>>

\* ---------------------------------------------------------- the inputs
\* The explicit references callers make: the root 1 under the meta-root, the
\* blob 3 under the leaf 2 that owns it.
RefPairs == {<<1, Zero>>, <<3, 2>>}
\* The limits Cap is called with, the Write call that fails (0: none), and
\* the time budgets of a Dereference.
Limits == {0, 200}
FailAts == 0 .. 2
Budgets == {NoLimit, 1}

Holds(d) ==
    /\ dirties = d.dirties
    /\ oldest = d.oldest
    /\ newest = d.newest
    /\ freshNodes = d.freshNodes
    /\ nodeVersion = d.nodeVersion
    /\ useless = d.useless
    /\ dirtiesSize = d.dirtiesSize
    /\ childrenSize = d.childrenSize
    /\ cleans = d.cleans
    /\ preimages = d.preimages
    /\ preimagesSize = d.preimagesSize
    /\ diskdb = d.diskdb
    /\ panic = d.panic

\* NewDatabaseWithConfig with a config that asks for neither a clean cache
\* nor preimages.
Init ==
    /\ Holds(NewDatabaseWithConfig(FALSE, FALSE))
    /\ inserts = 0
    /\ last = Quiet
    /\ rw = Unlocked
    /\ procs = [p \in Procs |-> Idle]

\* NewDatabaseWithConfig with a cache size and no preimages: a clean cache.
InitCache ==
    /\ Holds(NewDatabaseWithConfig(TRUE, FALSE))
    /\ inserts = 0
    /\ last = Quiet
    /\ rw = Unlocked
    /\ procs = [p \in Procs |-> Idle]

\* --------------------------------------------------------- the actions
\* The trie layer stores a node: insert, and insertFreshNode when it marks a
\* node it stores as not yet committed. Storing a hash again changes nothing.
Insert(h, fresh) ==
    /\ ~panic
    /\ IF h \in DOMAIN dirties THEN ~fresh ELSE inserts < MaxInserts
    /\ \E d \in {insert(DB, h, BlobSize(h), TrieNode(h))} :
          Store(IF fresh THEN insertFreshNode(d, h) ELSE d)
    /\ inserts' = IF h \in DOMAIN dirties THEN inserts ELSE inserts + 1
    /\ last' = Quiet
    /\ Alone

Reference(child, parent) ==
    /\ ~panic
    /\ parent \in DOMAIN dirties
    /\ parent = Zero /\ child \in MapKeys(dirties[Zero].children)
           => dirties[Zero].children.m[child] < MaxRootRefs
    /\ \E d \in {reference(DB, child, parent)} : Store(d)
    /\ last' = Quiet
    /\ UNCHANGED inserts
    /\ Alone

ReferenceVersion(root) ==
    /\ ~panic
    /\ \E d \in {referenceVersion(DB, root)} : Store(d)
    /\ last' = Quiet
    /\ UNCHANGED inserts
    /\ Alone

IncrVersionCall ==
    /\ ~panic
    /\ nodeVersion < MaxVersion
    /\ Store(IncrVersion(DB))
    /\ last' = Quiet
    /\ UNCHANGED inserts
    /\ Alone

DereferenceCall(root, budget) ==
    /\ ~panic
    /\ \E d \in {Dereference(DB, root, budget)} :
          Store(d) /\ last' = Call("Dereference", d, FALSE)
    /\ UNCHANGED inserts
    /\ Alone

DereferenceDBCall(root, budget) ==
    /\ ~panic
    /\ Len(useless) < MaxUseless
    /\ \E d \in {DereferenceDB(DB, root, budget)} :
          Store(d) /\ last' = Call("DereferenceDB", d, FALSE)
    /\ UNCHANGED inserts
    /\ Alone

CapCall(limit, failAt) ==
    /\ ~panic
    /\ \E r \in {Cap(DB, limit, failAt)} :
          Store(r.d) /\ last' = Call("Cap", r.d, r.err)
    /\ UNCHANGED inserts
    /\ Alone

CapNodeCall(limit) ==
    /\ ~panic
    /\ \E d \in {CapNode(DB, limit)} :
          Store(d) /\ last' = Call("CapNode", d, FALSE)
    /\ UNCHANGED inserts
    /\ Alone

CommitCall(root, uncache, failAt) ==
    /\ ~panic
    /\ \E r \in {Commit(DB, root, uncache, failAt)} :
          Store(r.d) /\ last' = Call("Commit", r.d, r.err)
    /\ UNCHANGED inserts
    /\ Alone

NodeCall(hash) ==
    /\ ~panic
    /\ \E r \in {Node(DB, hash)} :
          Store(r.d) /\ last' = [op |-> "Node", err |-> r.err]
    /\ UNCHANGED inserts
    /\ Alone

\* UselessGC returns nothing: err is what its caller is told of a failed
\* Write, failed whether the Write of its deletes failed.
UselessGCCall(num, fails) ==
    /\ ~panic
    /\ useless # <<>>
    /\ \E d \in {UselessGC(DB, num, fails)} : Store(d)
    /\ last' = [op |-> "UselessGC", err |-> FALSE, failed |-> fails]
    /\ UNCHANGED inserts
    /\ Alone

ResetUselessCall ==
    /\ ~panic
    /\ Store(ResetUseless(DB))
    /\ last' = Quiet
    /\ UNCHANGED inserts
    /\ Alone

Next ==
    \/ \E h \in Hash, fresh \in BOOLEAN : Insert(h, fresh)
    \/ \E p \in RefPairs : Reference(p[1], p[2])
    \/ \E h \in Hash : ReferenceVersion(h)
    \/ IncrVersionCall
    \/ \E h \in Hash, b \in Budgets : DereferenceCall(h, b)
    \/ \E h \in Hash, b \in Budgets : DereferenceDBCall(h, b)
    \/ ResetUselessCall
    \/ \E l \in Limits, f \in FailAts : CapCall(l, f)
    \/ \E h \in Hash, u \in BOOLEAN, f \in FailAts : CommitCall(h, u, f)

Spec == Init /\ [][Next]_vars

\* ------------------------------------- the cache with its clean cache
\* A second run of single calls, on a database built with a clean cache, which
\* adds the lookups, the sweep of the useless queue, CapNode, the calls the
\* meta-root is involved in, and a Commit that is tried again.

\* The references made here: the root 2 under the meta-root, the blob 3 under
\* the leaf 2, and one that names the meta-root as the child of node 1 (no
\* node is below itself in the graph these make).
RefPairsAny == {<<2, Zero>>, <<3, 2>>, <<Zero, 1>>}

\* insert and insertFreshNode of a hash the Node Store does not hold.
InsertFresh(h) ==
    /\ inserts < MaxStored
    /\ h \notin DOMAIN dirties
    /\ Insert(h, TRUE)

\* insert of a hash the Node Store already holds.
Reinsert(h) ==
    /\ ~panic
    /\ h \in DOMAIN dirties
    /\ \E d \in {insert(DB, h, BlobSize(h), TrieNode(h))} : Store(d)
    /\ last' = [op |-> "insert", err |-> FALSE]
    /\ UNCHANGED inserts
    /\ Alone

\* Dereference and DereferenceDB called on the zero hash.
DereferenceZero(op) ==
    /\ ~panic
    /\ \E d \in {IF op = "Dereference" THEN Dereference(DB, Zero, NoLimit)
                                       ELSE DereferenceDB(DB, Zero, NoLimit)} :
          Store(d)
    /\ last' = [op |-> op, err |-> FALSE, root |-> Zero]
    /\ UNCHANGED inserts
    /\ Alone

\* Commit(root, report, uncache); retry tells that the call before it was the
\* same Commit and returned an error.
CommitTry(root, uncache, failAt) ==
    /\ ~panic
    /\ \E r \in {Commit(DB, root, uncache, failAt)} :
          /\ Store(r.d)
          /\ last' = [op |-> "Commit", err |-> r.err, root |-> root,
                      uncache |-> uncache,
                      retry |-> /\ last.op = "Commit" /\ last.err
                                /\ last.root = root /\ last.uncache = uncache]
    /\ UNCHANGED inserts
    /\ Alone

NextGC ==
    \/ \E h \in Hash : InsertFresh(h)
    \/ \E h \in Hash : Reinsert(h)
    \/ \E p \in RefPairsAny : Reference(p[1], p[2])
    \/ IncrVersionCall
    \/ \E h \in Hash : DereferenceDBCall(h, NoLimit)
    \/ \E op \in {"Dereference", "DereferenceDB"} : DereferenceZero(op)
    \/ CapCall(0, 0)
    \/ CapNodeCall(200)
    \/ \E h \in Hash, u \in BOOLEAN, f \in 0 .. 1 : CommitTry(h, u, f)
    \/ \E h \in Key : NodeCall(h)
    \/ \E fails \in BOOLEAN : UselessGCCall(MaxUseless, fails)

SpecGC == InitCache /\ [][NextGC]_vars

\* ------------------------------------------------- concurrent callers
\* The steps of calls that run at the same time. A step is what one caller
\* does between two points where another caller can run: taking or leaving
\* db.lock, one access to the clean cache (which locks itself), one access to
\* the disk, one visit of the dereference walk.

\* sync.RWMutex: Lock waits for every holder, RLock for a write holder.
CanLock == ~rw.w /\ rw.r = 0
\* A read lock that waits for nobody.
NeverWaits == TRUE

CanRLock == ~rw.w

At(p, pc) == ~panic /\ procs[p].pc = pc

\* The caller p moves on with the fields of its record changed to q.
Move(p, q) == procs' = [procs EXCEPT ![p] = q]

Quietly == UNCHANGED <<inserts, last>>

\* The store the concurrent callers start on: the nodes 3, 2, 1 inserted in
\* this order, 3 referenced under 2 and the root 1 under the meta-root, all
\* committed to disk (and so in the clean cache) or not, and the version
\* counter raised since.
BuiltDB(committed) ==
    LET d0 == NewDatabaseWithConfig(TRUE, FALSE)
        d1 == insert(d0, 3, BlobSize(3), TrieNode(3))
        d2 == insert(d1, 2, BlobSize(2), TrieNode(2))
        d3 == insert(d2, 1, BlobSize(1), TrieNode(1))
        d4 == reference(reference(d3, 3, 2), 1, Zero)
        d5 == IF committed
              THEN Commit(insertFreshNode(insertFreshNode(insertFreshNode(d4, 1), 2), 3),
                          1, FALSE, 0).d
              ELSE d4
    IN IncrVersion(d5)

InitConc ==
    /\ \E committed \in BOOLEAN : Holds(BuiltDB(committed))
    /\ inserts = MaxInserts
    /\ last = Quiet
    /\ rw = Unlocked
    /\ procs = [p \in Procs |-> Idle]

\* --- the writer: Dereference(root) and DereferenceDB(root)
\* A frame of the walk: visit a hash, or drop the node the walk unlinked once
\* its children are done.
Visit(h) == [k |-> "visit", h |-> h]
Drop(h) == [k |-> "drop", h |-> h]

Visits(hs) == [i \in DOMAIN hs |-> Visit(hs[i])]

\* The call starts (the meta-root is refused before any step).
DerefStart(op, root) ==
    /\ At(Writer, "idle")
    /\ Move(Writer, [Idle EXCEPT !.pc = "lock", !.op = op, !.arg = root])
    /\ UNCHANGED <<dbvars, rw>> /\ Quietly

\* db.lock.Lock()
DerefLock ==
    /\ At(Writer, "lock")
    /\ CanLock
    /\ rw' = [rw EXCEPT !.w = TRUE]
    /\ Move(Writer, [procs[Writer] EXCEPT !.pc = "walk",
                                          !.stack = <<Visit(procs[Writer].arg)>>])
    /\ UNCHANGED dbvars /\ Quietly

\* dereference, lines 806-830: one call of dereference up to its recursion.
\* The clock may pass the time limit before any check.
DerefVisit ==
    /\ At(Writer, "walk")
    /\ procs[Writer].stack # <<>>
    /\ Head(procs[Writer].stack).k = "visit"
    /\ \E late \in {procs[Writer].late, TRUE} :
          LET w == [procs[Writer] EXCEPT !.late = late]
              h == Head(w.stack).h
              rest == Tail(w.stack)
          IN IF h \in freshNodes \/ h \notin DOMAIN dirties \/ late
             THEN Move(Writer, [w EXCEPT !.stack = rest]) /\ UNCHANGED dbvars
             ELSE IF isStale(DB, h)
             THEN /\ \E d \in {unlink(DB, h, dirties[h])} : Store(d)
                  /\ Move(Writer, [w EXCEPT !.stack =
                        Visits(forChilds(dirties[h])) \o <<Drop(h)>> \o rest])
             ELSE Move(Writer, [w EXCEPT !.stack = rest]) /\ UNCHANGED dbvars
    /\ UNCHANGED rw /\ Quietly

\* dereference, lines 836-846: the delete, the clear callback, the sizes.
DerefDrop ==
    /\ At(Writer, "walk")
    /\ procs[Writer].stack # <<>>
    /\ Head(procs[Writer].stack).k = "drop"
    /\ LET w == procs[Writer]
           h == Head(w.stack).h
       IN \E st \in {derefDelete([d |-> DB, budget |-> NoLimit, cleared |-> w.cleared],
                                 h, dirties[h])} :
             /\ Store(st.d)
             /\ Move(Writer, [w EXCEPT !.stack = Tail(w.stack),
                                       !.cleared = IF w.op = "DereferenceDB"
                                                   THEN st.cleared ELSE {}])
    /\ UNCHANGED rw /\ Quietly

\* db.lock.Unlock(); DereferenceDB goes on to queue what it cleared.
DerefUnlock ==
    /\ At(Writer, "walk")
    /\ procs[Writer].stack = <<>>
    /\ rw' = [rw EXCEPT !.w = FALSE]
    /\ Move(Writer, [procs[Writer] EXCEPT
                        !.pc = IF procs[Writer].op = "DereferenceDB"
                               THEN "append" ELSE "done"])
    /\ UNCHANGED dbvars /\ Quietly

\* DereferenceDB, line 706: db.useless = append(db.useless, useless).
DerefAppend ==
    /\ At(Writer, "append")
    /\ \E d \in {[DB EXCEPT !.useless = Append(@, procs[Writer].cleared)]} : Store(d)
    /\ Move(Writer, [procs[Writer] EXCEPT !.pc = "done"])
    /\ UNCHANGED rw /\ Quietly

\* --- a reader: Node(hash); node(hash) takes the same steps
NodeStart(p, hash) ==
    /\ At(p, "idle") \/ At(p, "ret")
    /\ Move(p, [Idle EXCEPT !.pc = "cleans", !.op = "Node", !.arg = hash])
    /\ UNCHANGED <<dbvars, rw>> /\ Quietly

Found(enc) == [err |-> FALSE, enc |-> enc]
Missing == [err |-> TRUE, enc |-> <<>>]

\* db.cleans.Get
NodeCleans(p) ==
    /\ At(p, "cleans")
    /\ LET h == procs[p].arg
       IN IF ~cleans.isnil /\ h \in DOMAIN cleans.m
          THEN Move(p, [procs[p] EXCEPT !.pc = "ret", !.res = Found(cleans.m[h])])
          ELSE Move(p, [procs[p] EXCEPT !.pc = "rlock"])
    /\ UNCHANGED <<dbvars, rw>> /\ Quietly

\* db.lock.RLock()
NodeRLock(p) ==
    /\ At(p, "rlock")
    /\ CanRLock
    /\ rw' = [rw EXCEPT !.r = @ + 1]
    /\ Move(p, [procs[p] EXCEPT !.pc = "dirty"])
    /\ UNCHANGED dbvars /\ Quietly

\* dirty := db.dirties[hash]; db.lock.RUnlock(); the return of a dirty hit.
\* A read of the map while a writer is inside its critical section is a data
\* race: the runtime may end the process (concurrent map read and map write)
\* or let the read through.
NodeDirty(p) ==
    /\ At(p, "dirty")
    /\ rw' = [rw EXCEPT !.r = @ - 1]
    /\ LET h == procs[p].arg
       IN IF h \in DOMAIN dirties
          THEN Move(p, [procs[p] EXCEPT !.pc = "ret", !.res = Found(rlp(dirties[h]))])
          ELSE Move(p, [procs[p] EXCEPT !.pc = "disk"])
    /\ \E dies \in {FALSE, rw.w} : \E d \in {[DB EXCEPT !.panic = dies]} : Store(d)
    /\ Quietly

\* rawdb.ReadTrieNode, and db.cleans.Set on a hit.
NodeDisk(p) ==
    /\ At(p, "disk")
    /\ LET h == procs[p].arg
       IN IF h \in DOMAIN diskdb /\ Len(diskdb[h]) # 0
          THEN /\ \E d \in {cleansSet(DB, h, diskdb[h])} : Store(d)
               /\ Move(p, [procs[p] EXCEPT !.pc = "ret", !.res = Found(diskdb[h])])
          ELSE /\ Move(p, [procs[p] EXCEPT !.pc = "ret", !.res = Missing])
               /\ UNCHANGED dbvars
    /\ UNCHANGED rw /\ Quietly

\* --- the stamper: ReferenceVersion(root)
StampStart(p, root) ==
    /\ At(p, "idle")
    /\ Move(p, [Idle EXCEPT !.pc = "rlock", !.op = "ReferenceVersion", !.arg = root])
    /\ UNCHANGED <<dbvars, rw>> /\ Quietly

\* db.lock.RLock()
StampRLock(p) ==
    /\ At(p, "rlock")
    /\ CanRLock
    /\ rw' = [rw EXCEPT !.r = @ + 1]
    /\ Move(p, [procs[p] EXCEPT !.pc = "stamp"])
    /\ UNCHANGED dbvars /\ Quietly

\* db.referenceVersion(root): the writes of node.version, then the deferred
\* db.lock.RUnlock().
StampWrite(p) ==
    /\ At(p, "stamp")
    /\ \E d \in {referenceVersion(DB, procs[p].arg)} : Store(d)
    /\ rw' = [rw EXCEPT !.r = @ - 1]
    /\ Move(p, Idle)
    /\ Quietly

NextConc ==
    \/ \E op \in {"Dereference", "DereferenceDB"}, root \in Hash : DerefStart(op, root)
    \/ DerefLock
    \/ DerefVisit
    \/ DerefDrop
    \/ DerefUnlock
    \/ DerefAppend
    \/ \E p \in Readers, h \in Hash : NodeStart(p, h)
    \/ \E p \in Readers : NodeCleans(p)
    \/ \E p \in Readers : NodeRLock(p)
    \/ \E p \in Readers : NodeDirty(p)
    \/ \E p \in Readers : NodeDisk(p)
    \/ \E p \in Stampers, h \in Hash : StampStart(p, h)
    \/ \E p \in Stampers : StampRLock(p)
    \/ \E p \in Stampers : StampWrite(p)

SpecConc == InitConc /\ [][NextConc]_vars

\* --- the capper: Cap(limit), next to the pruning writer
\* Cap, lines 896-950: the scan of the flush list and the Writes, with
\* db.lock not taken. The scan reads db.dirties; while the writer is inside
\* its critical section that read is a data race, which the runtime may end
\* the process on. A failed Write returns the error (on the RUnlock of line
\* 932 the process dies).
CapScan(limit, failAt) ==
    /\ At(Capper, "idle")
    /\ \E cs \in {capFlush(DB, limit, failAt)} : \E dies \in {FALSE, rw.w} :
          /\ \E d \in {[DB EXCEPT !.diskdb = cs.disk, !.panic = cs.panic \/ dies]} :
                Store(d)
          /\ Move(Capper, [Idle EXCEPT !.pc = IF cs.err THEN "done" ELSE "lock",
                                       !.op = "Cap", !.arg = cs.oldest,
                                       !.wrote = cs.wrote,
                                       !.res = [err |-> cs.err, enc |-> <<>>]])
    /\ UNCHANGED rw /\ Quietly

\* Cap, line 952: db.lock.Lock()
CapLock ==
    /\ At(Capper, "lock")
    /\ CanLock
    /\ rw' = [rw EXCEPT !.w = TRUE]
    /\ Move(Capper, [procs[Capper] EXCEPT !.pc = "remove"])
    /\ UNCHANGED dbvars /\ Quietly

\* Cap, lines 962-974 and the deferred Unlock: drop the entries from db.oldest
\* up to the cursor the scan ended on.
CapRemoveStep ==
    /\ At(Capper, "remove")
    /\ \E d \in {capRemove(DB, procs[Capper].arg)} :
          /\ Store(d)
          /\ Move(Capper, [procs[Capper] EXCEPT
                              !.pc = "done",
                              !.cleared = DOMAIN dirties \ DOMAIN d.dirties])
    /\ rw' = [rw EXCEPT !.w = FALSE]
    /\ Quietly

NextCap ==
    \/ \E op \in {"Dereference", "DereferenceDB"}, root \in Hash : DerefStart(op, root)
    \/ DerefLock
    \/ DerefVisit
    \/ DerefDrop
    \/ DerefUnlock
    \/ DerefAppend
    \/ \E l \in Limits, f \in FailAts : CapScan(l, f)
    \/ CapLock
    \/ CapRemoveStep

SpecCap == InitConc /\ [][NextCap]_vars

\* ------------------------------------------------------ the properties
\* The Node Store keys other than the meta-root.
NonMeta(d) == DOMAIN d.dirties \ {Zero}

\* The entries a step removes from the Node Store.
Removed == DOMAIN dirties \ DOMAIN dirties'

\* The hashes met following flushNext from h, for at most fuel entries; a
\* hash absent from the Node Store ends the walk.
RECURSIVE flushWalk(_, _, _)
flushWalk(d, h, fuel) ==
    IF h = Zero \/ fuel = 0 THEN <<>>
    ELSE IF h \notin DOMAIN d.dirties THEN <<h>>
    ELSE <<h>> \o flushWalk(d, d.dirties[h].flushNext, fuel - 1)

\* The flush list from db.oldest; one entry more than the store holds shows
\* a cycle.
FlushList(d) == flushWalk(d, d.oldest, Cardinality(DOMAIN d.dirties))

Range(f) == {f[i] : i \in DOMAIN f}

\* The dirty nodes a walk over forChilds reaches from h.
RECURSIVE Reach(_, _)
Reach(d, h) ==
    IF h \notin DOMAIN d.dirties THEN {}
    ELSE {h} \cup UNION {Reach(d, c) : c \in Range(forChilds(d.dirties[h]))}

\* The sum of hash length and size over a set of entries.
RECURSIVE SumSizes(_, _)
SumSizes(d, S) ==
    IF S = {} THEN 0
    ELSE LET h == CHOOSE x \in S : TRUE
         IN HashLength + d.dirties[h].size + SumSizes(d, S \ {h})

\* C1: write-before-evict. Every entry a Cap or Commit step removes from the
\* Node Store is on disk in the state the step leaves, under its hash and with
\* the bytes of the removed entry; this covers the steps of a Commit that ends
\* on a failed Write after earlier sub-batches were replayed.
C1_WriteBeforeEvict ==
    [][last'.op \in {"Cap", "Commit"} =>
          \A h \in Removed :
              h \in DOMAIN diskdb' /\ diskdb'[h] = rlp(dirties[h])]_vars

\* A Commit with uncache evicted a node that is now on disk.
C1_Witness ==
    /\ last = [op |-> "Commit", err |-> FALSE]
    /\ \E h \in Hash : h \notin DOMAIN dirties /\ h \in DOMAIN diskdb

\* C2: when a Write fails partway through Commit(root, uncache = true), the
\* nodes of the sub-batches written before it are absent from the Node Store
\* and on disk, and the nodes of the failed batch are still in the Node Store
\* and on the flush list.
C2_FailedBatchKept ==
    [][last'.op = "Commit" /\ last'.err =>
          \A r \in Hash, f \in FailAts :
              LET c == Commit(DB, r, TRUE, f)
              IN c.err /\ Store(c.d) =>
                    /\ \A h \in c.wrote :
                          /\ h \notin DOMAIN dirties'
                          /\ h \in DOMAIN diskdb'
                          /\ diskdb'[h] = rlp(dirties[h])
                    /\ \A h \in BatchKeys(c.batch) :
                          /\ h \in DOMAIN dirties'
                          /\ h \in Range(FlushList(c.d))]_vars

\* Commit(1, uncache) returned an error after its first sub-batch: the nodes
\* 2 and 3 of that batch are evicted and on disk, and the root 1, alone in
\* the batch whose Write failed, is still dirty, fresh, and not on disk.
C2_Witness ==
    /\ last = [op |-> "Commit", err |-> TRUE]
    /\ {2, 3} \cap DOMAIN dirties = {} /\ {2, 3} \subseteq DOMAIN diskdb
    /\ 1 \in freshNodes /\ 1 \in DOMAIN dirties /\ 1 \notin DOMAIN diskdb

\* C3: dirtiesSize is the sum of 32 + size over the Node Store entries other
\* than the meta-root.
C3_DirtiesSizeExact == dirtiesSize = SumSizes(DB, NonMeta(DB))

\* C4: following flushNext from oldest visits every Node Store key other
\* than the meta-root exactly once, visits no absent hash, and ends on newest.
C4_FlushListCovers ==
    LET w == FlushList(DB)
    IN /\ Range(w) = NonMeta(DB)
       /\ Len(w) = Cardinality(NonMeta(DB))
       /\ w # <<>> => w[Len(w)] = newest

\* Entries were removed and two or more are left on the list.
C4_Witness ==
    /\ last.op \in {"Cap", "Commit", "Dereference", "DereferenceDB"}
    /\ Cardinality(NonMeta(DB)) >= 2
    /\ inserts = MaxInserts

\* The state a pruning scenario leaves before Dereference(r): the root r was
\* built and stamped at an older version, the version counter was raised, the
\* root q was built and stamped by referenceVersion(q) at the current version.
\* No node of either is fresh, every dirty node below q carries the current
\* version, every other dirty node below r an older one.
Pruning(r, q) ==
    /\ r # q /\ r \in DOMAIN dirties /\ q \in DOMAIN dirties
    /\ r \notin Reach(DB, q)
    /\ (Reach(DB, r) \cup Reach(DB, q)) \cap freshNodes = {}
    /\ \A h \in Reach(DB, q) : dirties[h].version = nodeVersion
    /\ \A h \in Reach(DB, r) \ Reach(DB, q) : dirties[h].version < nodeVersion

\* What the scenario promises of the database d that Dereference(r) leaves.
Pruned(d, r, q) ==
    /\ \A h \in Reach(DB, r) \ Reach(DB, q) : h \notin DOMAIN d.dirties
    /\ \A h \in Reach(DB, q) :
          /\ h \in DOMAIN d.dirties
          /\ d.dirties[h].node = dirties[h].node
          /\ d.dirties[h].version = dirties[h].version

\* C5, as stated: Dereference(R) in the pruning scenario leaves no node of R
\* of an older version that R' does not reach in the Node Store and leaves
\* every node stamped by referenceVersion(R') there, whether or not the walk
\* ran out of its time budget.
C5_PruneAnyBudget ==
    \A r \in Hash, q \in Hash, b \in Budgets :
        Pruning(r, q) => Pruned(Dereference(DB, r, b), r, q)

\* C5, amended: the same for a Dereference(R) whose walk ends within
\* DereferenceTimeLimit.
C5_PruneInTime ==
    \A r \in Hash, q \in Hash :
        Pruning(r, q) => Pruned(Dereference(DB, r, NoLimit), r, q)

\* Dereference(1) pruned the root 1 and its old child 3 and kept the root 2,
\* which carries the current version.
C5_Witness ==
    /\ last.op = "Dereference"
    /\ nodeVersion = 1
    /\ {1, 3} \cap DOMAIN dirties = {}
    /\ 2 \in DOMAIN dirties /\ dirties[2].version = 1 /\ 2 \notin freshNodes
    /\ {1, 3} \cap DOMAIN diskdb = {}

\* C6: every entry a Dereference or DereferenceDB step removes from the Node
\* Store was not fresh and carried a version below the version counter.
C6_PruneOnlyStale ==
    [][last'.op \in {"Dereference", "DereferenceDB"} =>
          \A h \in Removed :
              h \notin freshNodes /\ dirties[h].version < nodeVersion]_vars

\* A DereferenceDB pruned a node and left a fresh node of an older version.
C6_Witness ==
    /\ last.op = "DereferenceDB"
    /\ useless # <<>>
    /\ \E h \in freshNodes :
          h \in DOMAIN dirties /\ dirties[h].version < nodeVersion

\* C7: after a Cap(limit) that returns without error Size() is at most limit.
C7_CapRespectsLimit ==
    ~panic =>
        \A l \in Limits, f \in FailAts :
            LET r == Cap(DB, l, f)
            IN ~r.err /\ ~r.d.panic => Size(r.d) <= l

\* C8: Node(hash) returns, for a node a successful Cap evicted, the bytes it
\* returned before the Cap, which are the bytes of the inserted node.
C8_NodeSameAfterCap ==
    [][last'.op = "Cap" /\ ~last'.err =>
          \A h \in Removed :
              /\ ~Node(DB, h).err /\ ~Node(DB', h).err
              /\ Node(DB', h).enc = Node(DB, h).enc
              /\ Node(DB', h).enc = nodeToBytes(simplifyNode(TrieNode(h)))]_vars

\* A Cap evicted a node that the disk now holds.
C8_Witness ==
    /\ last = [op |-> "Cap", err |-> FALSE]
    /\ \E h \in Hash : h \notin DOMAIN dirties /\ h \in DOMAIN diskdb

\* The subtree of each hash in the store the concurrent callers start on, and
\* the bytes each hash stands for.
Subtrees == [h \in Hash |-> Reach(BuiltDB(FALSE), h)]
Content == [h \in Hash |-> nodeToBytes(simplifyNode(TrieNode(h)))]

\* The subtree the writer's Dereference call works on, once it has started.
Subtree == IF procs[Writer].pc = "idle" THEN {} ELSE Subtrees[procs[Writer].arg]

\* C9: while the writer runs Dereference on a subtree, every Node call of a
\* reader for a hash outside that subtree returns the node's bytes, never
\* not-found, and no caller dies.
C9_ReadersUnaffected ==
    /\ ~panic
    /\ \A p \in Readers :
          procs[p].pc = "ret" /\ procs[p].arg \notin Subtree =>
              procs[p].res = Found(Content[procs[p].arg])

\* The writer is inside Dereference(2) and has dropped node 3; one reader has
\* the bytes of node 1, the other waits for the lock to read it.
C9_Witness ==
    /\ procs[Writer].pc = "walk" /\ procs[Writer].arg = 2
    /\ 3 \notin DOMAIN dirties
    /\ procs["r1"].pc = "ret" /\ procs["r1"].arg = 1
    /\ procs["r1"].res = Found(Content[1])
    /\ procs["r2"].pc = "rlock" /\ procs["r2"].arg = 1

\* C10: every step that writes the Node Store, the flush list, the version
\* tags or the useless queue is taken with db.lock held in exclusive mode: it
\* is write-held and nobody holds it for reading.
C10_ExclusiveWrites ==
    [][<<dirties, oldest, newest, useless>>' # <<dirties, oldest, newest, useless>>
          => rw.w /\ rw.r = 0]_vars
\* C11: Cap is atomic with respect to db.lock. Whatever a concurrent
\* Dereference does, a Cap whose Writes all succeed runs to its end (no caller
\* dies), leaves the meta-root in the Node Store, and has removed exactly the
\* entries it wrote to disk.
C11_CapAtomic ==
    ~procs[Capper].res.err =>
        /\ ~panic
        /\ Zero \in DOMAIN dirties
        /\ procs[Capper].pc = "done" =>
              procs[Capper].cleared = procs[Capper].wrote
\* C12: the zero-hash meta-root is in the Node Store in every reachable
\* state, and it is never linked into the flush list: no entry of the list
\* names it as a neighbour and it has none.
C12_MetaRootKept ==
    /\ Zero \in DOMAIN dirties
    /\ dirties[Zero].flushPrev = Zero /\ dirties[Zero].flushNext = Zero
    /\ Zero \notin Range(FlushList(DB))
\* C13: Dereference and DereferenceDB of the zero hash are refused: whatever
\* the state and the time the call has, it leaves the Node Store, the flush
\* list, the size counters, the clean cache, the useless queue and the disk as
\* they were.
C13_ZeroRefused ==
    \A b \in Budgets :
        /\ Dereference(DB, Zero, b) = DB
        /\ DereferenceDB(DB, Zero, b) = DB

\* DereferenceDB(zero hash) was called on a store that holds a node of an
\* older version, which a walk would prune, and queued nothing.
C13_Witness ==
    /\ last = [op |-> "DereferenceDB", err |-> FALSE, root |-> Zero]
    /\ Zero \in DOMAIN dirties
    /\ \E h \in NonMeta(DB) : h \notin freshNodes /\ dirties[h].version < nodeVersion
    /\ useless = <<>>
\* C14: a Cap in which a Write fails, on a sub-batch of the scan or on the
\* last batch, returns the error with the Node Store, the flush list and
\* dirtiesSize as they were, and the caller goes on: the process has not died
\* on db.lock, which is free for the next call.
C14_CapFailureClean ==
    ~panic =>
        \A l \in Limits, f \in FailAts :
            LET r == Cap(DB, l, f)
            IN r.err =>
                  /\ ~r.d.panic
                  /\ r.d.dirties = dirties
                  /\ r.d.oldest = oldest /\ r.d.newest = newest
                  /\ r.d.dirtiesSize = dirtiesSize
\* The nodes the walk of commit covers from h: the fresh dirty nodes reached
\* from h through fresh dirty nodes.
RECURSIVE FreshReach(_, _)
FreshReach(d, h) ==
    IF h \notin d.freshNodes \/ h \notin DOMAIN d.dirties THEN {}
    ELSE {h} \cup UNION {FreshReach(d, c) : c \in Range(forChilds(d.dirties[h]))}

\* C15: a Commit(root, uncache) that returns a write error can be tried
\* again. Every fresh node the commit walk reaches from root before the first
\* call is in the Node Store or on disk after the failed call, and on disk,
\* with its bytes, after a second call whose Writes succeed.
C15_RetrySafe ==
    ~panic =>
        \A root \in Hash, u \in BOOLEAN, f \in FailAts \ {0} :
            LET c1 == Commit(DB, root, u, f)
            IN c1.err =>
                  LET c2 == Commit(c1.d, root, u, 0)
                  IN /\ ~c2.err
                     /\ \A h \in FreshReach(DB, root) :
                           /\ h \in DOMAIN c1.d.dirties \/ h \in DOMAIN c1.d.diskdb
                           /\ h \in DOMAIN c2.d.diskdb
                           /\ c2.d.diskdb[h] = rlp(dirties[h])

\* The Commit that failed on its only Write was called again and wrote the
\* root, which it then uncached.
C15_Witness ==
    /\ last.op = "Commit" /\ ~last.err
    /\ last.retry /\ last.uncache
    /\ last.root \in DOMAIN diskdb /\ last.root \notin DOMAIN dirties
    /\ freshNodes = {}
\* C16: a UselessGC whose batch Write failed tells its caller so: whenever
\* the last call was a sweep whose Write of the deletes failed, the caller was
\* given an error.
C16_SweepFailureSurfaced ==
    last.op = "UselessGC" /\ last.failed => last.err
\* The databases a run insert(h); {Cap | Commit}* leads to from d, for the runs
\* of no call, one Cap and one Commit of h (every Write succeeds).
AfterReinsert(d, h) ==
    LET d1 == insertFreshNode(insert(d, h, BlobSize(h), TrieNode(h)), h)
    IN {d1} \cup {Cap(d1, l, 0).d : l \in Limits}
            \cup {Commit(d1, h, u, 0).d : u \in BOOLEAN}

\* C17: a node that DereferenceDB queued for the disk sweep and that was
\* inserted again before the sweep is not lost: after insert(h), any Cap or
\* Commit, and UselessGC, Node(h) returns the node's bytes.
C17_ReinsertedSurvives ==
    ~panic =>
        \A h \in Hash :
            h \notin DOMAIN dirties /\ (\E i \in DOMAIN useless : h \in useless[i]) =>
                \A d2 \in AfterReinsert(DB, h) :
                    LET r == Node(UselessGC(d2, Len(useless), FALSE), h)
                    IN ~d2.panic => ~r.err /\ r.enc = Content[h]
\* C18: the clean cache never holds the only copy of a node: every hash in
\* the clean cache is on disk, with the same bytes.
C18_CleansOnDisk ==
    ~cleans.isnil =>
        \A h \in DOMAIN cleans.m :
            h \in DOMAIN diskdb /\ diskdb[h] = cleans.m[h]
\* Whether a hash is in the clean cache, the Node Store or the disk.
Present(d, h) ==
    \/ ~d.cleans.isnil /\ h \in DOMAIN d.cleans.m
    \/ h \in DOMAIN d.dirties
    \/ h \in DOMAIN d.diskdb

\* C19: Node(hash) returns "not found" exactly when hash is the zero hash or
\* is in none of the clean cache, the Node Store and the disk; for any other
\* hash it returns the bytes of the node without error.
C19_NotFoundIffAbsent ==
    \A h \in Key :
        LET r == Node(DB, h)
        IN /\ r.err <=> (h = Zero \/ ~Present(DB, h))
           /\ ~r.err => r.enc = Content[h]

\* Node returned "not found" on a store that holds one hash on disk alone,
\* one in the Node Store, and lacks a third everywhere.
C19_Witness ==
    /\ last = [op |-> "Node", err |-> TRUE]
    /\ \E h \in Hash : ~Present(DB, h)
    /\ \E h \in Hash : h \in DOMAIN diskdb /\ h \notin DOMAIN dirties
                          /\ h \notin DOMAIN cleans.m
    /\ \E h \in Hash : h \in DOMAIN dirties
\* C20: insert of a hash the Node Store already holds is a no-op: whatever
\* node and size come with it, the keys of the Node Store, the flush list with
\* its ends and links, dirtiesSize and the entry's size, version and content
\* stay as they are (and so does every other field).
C20_InsertIdempotent ==
    \A h \in NonMeta(DB), g \in Hash :
        insert(DB, h, BlobSize(g), TrieNode(g)) = DB

\* A hash was inserted a second time, after the version counter was raised,
\* into a store of two entries of which one still carries the older version.
C20_Witness ==
    /\ last = [op |-> "insert", err |-> FALSE]
    /\ nodeVersion = 1
    /\ Cardinality(NonMeta(DB)) = 2
    /\ \E h \in NonMeta(DB) : dirties[h].version = 0

\* ------------------------------------------------ the store being built
\* A run of the calls that only add to the store: inserts of new hashes,
\* explicit references, version stamps and version rises. last keeps, beside
\* the call made last and its arguments, the hashes in the order their inserts
\* stored them, and whether the call repeats the one before it.

\* How many times the same child is put under the meta-root.
MaxEdges == 2

\* The references made while the store is built.
RefPairsBuild == {<<1, Zero>>, <<3, 2>>}

\* The hashes stored so far, in the order of their inserts.
Order == IF "order" \in DOMAIN last THEN last.order ELSE <<>>

Built(op, args, order) ==
    [op |-> op, err |-> FALSE, args |-> args, order |-> order,
     again |-> "args" \in DOMAIN last /\ last.op = op /\ last.args = args]

BuildInsert(h, fresh) ==
    /\ ~panic
    /\ h \notin DOMAIN dirties
    /\ inserts < MaxInserts
    /\ \E d \in {insert(DB, h, BlobSize(h), TrieNode(h))} :
          Store(IF fresh THEN insertFreshNode(d, h) ELSE d)
    /\ inserts' = inserts + 1
    /\ last' = Built("insert", <<h>>, Append(Order, h))
    /\ Alone

BuildReference(child, parent) ==
    /\ ~panic
    /\ parent \in DOMAIN dirties
    /\ parent = Zero /\ child \in MapKeys(dirties[Zero].children)
           => dirties[Zero].children.m[child] < MaxEdges
    /\ \E d \in {reference(DB, child, parent)} : Store(d)
    /\ last' = Built("Reference", <<child, parent>>, Order)
    /\ UNCHANGED inserts
    /\ Alone

BuildReferenceVersion(root) ==
    /\ ~panic
    /\ \E d \in {referenceVersion(DB, root)} : Store(d)
    /\ last' = Built("ReferenceVersion", <<root>>, Order)
    /\ UNCHANGED inserts
    /\ Alone

BuildIncrVersion ==
    /\ ~panic
    /\ nodeVersion < MaxVersion
    /\ Store(IncrVersion(DB))
    /\ last' = Built("IncrVersion", <<>>, Order)
    /\ UNCHANGED inserts
    /\ Alone

NextBuild ==
    \/ \E h \in Hash, fresh \in BOOLEAN : BuildInsert(h, fresh)
    \/ \E p \in RefPairsBuild : BuildReference(p[1], p[2])
    \/ \E h \in Hash : BuildReferenceVersion(h)
    \/ BuildIncrVersion

SpecBuild == Init /\ [][NextBuild]_vars

\* The hashes met following flushPrev from h, for at most fuel entries.
RECURSIVE flushWalkBack(_, _, _)
flushWalkBack(d, h, fuel) ==
    IF h = Zero \/ fuel = 0 THEN <<>>
    ELSE IF h \notin DOMAIN d.dirties THEN <<h>>
    ELSE <<h>> \o flushWalkBack(d, d.dirties[h].flushPrev, fuel - 1)

\* The flush list walked from db.newest.
FlushListBack(d) == flushWalkBack(d, d.newest, Cardinality(DOMAIN d.dirties))

Reverse(s) == [i \in 1 .. Len(s) |-> s[Len(s) + 1 - i]]

\* C21: after any run of inserts of distinct hashes into a new database, the
\* walk from db.oldest along flushNext meets exactly the inserted hashes in
\* the order of their inserts, and the walk from db.newest along flushPrev
\* meets the same hashes in the reverse order.
C21_FlushOrder ==
    /\ FlushList(DB) = Order
    /\ FlushListBack(DB) = Reverse(Order)

\* Three hashes were inserted, not in the order of their values.
C21_Witness ==
    /\ last.op = "insert"
    /\ Len(Order) = 3
    /\ Order[1] > Order[2]
    /\ oldest = Order[1] /\ newest = Order[3]

\* What the scan of Cap has left of the size after the first j entries of the
\* flush list b.
RECURSIVE capLeft(_, _, _)
capLeft(d, b, j) ==
    IF j = 0 THEN totalSize(d)
    ELSE capLeft(d, b, j - 1) - capNodeCost(d.dirties[b[j]])

\* C22: the entries one Cap call removes are a prefix of the flush list, the
\* oldest first: the shortest prefix that brings the size the scan keeps down
\* to the limit, whatever the parents, children, version or fresh mark of the
\* entries in it. The entries that stay keep their order, and the first of
\* them becomes db.oldest with a zero flushPrev.
C22_CapPrefix ==
    ~panic =>
        \A l \in Limits :
            LET r == Cap(DB, l, 0)
                b == FlushList(DB)
                a == FlushList(r.d)
                k == Len(b) - Len(a)
            IN ~r.err /\ ~r.d.panic =>
                  /\ k >= 0
                  /\ a = SubSeq(b, k + 1, Len(b))
                  /\ DOMAIN dirties \ DOMAIN r.d.dirties = {b[i] : i \in 1 .. k}
                  /\ \A j \in 0 .. Len(b) - 1 :
                        j < k <=> \A i \in 0 .. j : capLeft(DB, b, i) > l
                  /\ r.d.oldest = IF a = <<>> THEN Zero ELSE a[1]
                  /\ a # <<>> => r.d.dirties[a[1]].flushPrev = Zero

\* A Cap removed a fresh node, which the disk now holds, and stopped at an
\* entry that is not fresh, now the oldest.
C22_Witness ==
    /\ last = [op |-> "Cap", err |-> FALSE]
    /\ \E h \in freshNodes : h \notin DOMAIN dirties /\ h \in DOMAIN diskdb
    /\ oldest # Zero /\ oldest \notin freshNodes
    /\ dirties[oldest].flushPrev = Zero

\* C23: reference(child, parent) with a child the Node Store does not hold
\* changes nothing: parents and children of every entry, childrenSize, the
\* flush list and the keys of the Node Store (and every other field) are what
\* they were, whatever the parent.
C23_ReferenceAbsentChild ==
    \A child \in Key \ DOMAIN dirties, parent \in Key :
        reference(DB, child, parent) = DB

\* Reference(3, 2) was called on a store that holds the parent 2 and not the
\* child 3.
C23_Witness ==
    /\ last.op = "Reference" /\ last.args = <<3, 2>>
    /\ 2 \in DOMAIN dirties /\ 3 \notin DOMAIN dirties

\* How many edges to child the children map of parent records.
Edges(d, child, parent) ==
    LET pc == d.dirties[parent].children
    IN IF ~pc.isnil /\ child \in MapKeys(pc) THEN pc.m[child] ELSE 0

\* C24: under a parent other than the meta-root, reference(child, parent) is
\* idempotent: a second call leaves the parent's children map, the child's
\* parents counter and childrenSize (and every other field) as the first call
\* left them. Under the meta-root every call adds an edge: the count the
\* meta-root keeps for the child rises by one with each call.
C24_ReferenceIdempotent ==
    \A child \in NonMeta(DB) :
        /\ \A parent \in NonMeta(DB) :
              LET d1 == reference(DB, child, parent)
                  d2 == reference(d1, child, parent)
              IN /\ Edges(d1, child, parent) = 1
                 /\ d2.dirties[parent].children = d1.dirties[parent].children
                 /\ d2.dirties[child].parents = d1.dirties[child].parents
                 /\ d2.childrenSize = d1.childrenSize
                 /\ d2 = d1
        /\ LET d1 == reference(DB, child, Zero)
               d2 == reference(d1, child, Zero)
           IN /\ Edges(d1, child, Zero) = Edges(DB, child, Zero) + 1
              /\ Edges(d2, child, Zero) = Edges(DB, child, Zero) + 2

\* Reference(3, 2) was called twice in a row and left one edge and one parent;
\* Reference(1, zero) was called twice and left two edges.
C24_Witness ==
    /\ last.op = "Reference" /\ last.args = <<3, 2>> /\ last.again
    /\ Edges(DB, 3, 2) = 1 /\ dirties[3].parents = 1
    /\ 1 \in DOMAIN dirties /\ Edges(DB, 1, Zero) = 2

\* The Node Store entries whose children map holds n.
ParentsOf(d, n) ==
    {p \in DOMAIN d.dirties :
        ~d.dirties[p].children.isnil /\ n \in MapKeys(d.dirties[p].children)}

\* C25: in every reachable state the parents counter of every Node Store
\* entry is the number of Node Store entries whose children map holds it; a
\* parent that Cap, Commit or Dereference removed is not counted.
C25_ParentsExact ==
    \A n \in DOMAIN dirties :
        dirties[n].parents = Cardinality(ParentsOf(DB, n))

\* C26: referenceVersion(root) gives the current version to every Node Store
\* entry a path of Node Store entries reaches from root, over the edges of
\* the children maps and the hash links inside the nodes, and changes nothing
\* else: every entry off those paths keeps its version and every other field.
C26_StampReachable ==
    \A root \in Key :
        LET d1 == referenceVersion(DB, root)
            R == Reach(DB, root)
        IN /\ \A h \in R : d1.dirties[h].version = nodeVersion
           /\ \A h \in DOMAIN dirties \ R : d1.dirties[h].version = dirties[h].version
           /\ d1 = [DB EXCEPT !.dirties =
                       [h \in DOMAIN dirties |->
                           IF h \in R THEN [dirties[h] EXCEPT !.version = nodeVersion]
                           ELSE dirties[h]]]

\* ReferenceVersion(2) was called after the version rose: the leaf 2 and the
\* blob 3 under it, both stored before the root 1, carry the new version, and
\* the root 1 the old one.
C26_Witness ==
    /\ last.op = "ReferenceVersion" /\ last.args = <<2>>
    /\ nodeVersion = 1
    /\ Len(Order) = 3 /\ Order[3] = 1
    /\ Edges(DB, 3, 2) = 1
    /\ dirties[1].version = 0
    /\ dirties[2].version = 1 /\ dirties[3].version = 1

\* --------------------------------------------- the store with preimages
\* A run of single calls on a database built with a clean cache and with
\* preimages: the trie layer stores fresh nodes and the preimages of keys,
\* and commits. last keeps, for a Commit, its arguments, the preimages
\* tracked when it was called, and whether the call before it was a
\* successful Commit of the same root.

\* The hashes of the keys whose preimages are tracked, and their preimages:
\* one preimage fits a batch of IdealBatchSize, the two together do not.
PreHash == {1, 2}
PreimageOf == (1 :> <<4, 4, 4>>) @@ (2 :> <<5, 5, 5, 5>>)

\* The Write call of a Commit that fails (0: none).
FailAtsPre == 0 .. 3

InitPre ==
    /\ Holds(NewDatabaseWithConfig(TRUE, TRUE))
    /\ inserts = 0
    /\ last = Quiet
    /\ rw = Unlocked
    /\ procs = [p \in Procs |-> Idle]

InsertPreimage(hash) ==
    /\ ~panic
    /\ Store(insertPreimage(DB, hash, PreimageOf[hash]))
    /\ last' = Quiet
    /\ UNCHANGED inserts
    /\ Alone

CommitPre(root, uncache, failAt) ==
    /\ ~panic
    /\ \E r \in {Commit(DB, root, uncache, failAt)} :
          /\ Store(r.d)
          /\ last' = [op |-> "Commit", err |-> r.err, root |-> root,
                      uncache |-> uncache, before |-> preimages.m,
                      again |-> /\ last.op = "Commit" /\ ~last.err
                                /\ last.root = root]
    /\ UNCHANGED inserts
    /\ Alone

NextPre ==
    \/ \E h \in Hash : InsertFresh(h)
    \/ \E p \in RefPairs : Reference(p[1], p[2])
    \/ \E h \in PreHash : InsertPreimage(h)
    \/ \E h \in Hash, u \in BOOLEAN, f \in FailAtsPre : CommitPre(h, u, f)

SpecPre == InitPre /\ [][NextPre]_vars

\* C27: a successful Commit leaves the fresh set empty, so a second Commit of
\* the same root with no insert in between writes no trie node to the disk
\* and leaves the Node Store and the flush list (and every other field) as
\* the first Commit left them.
C27_SecondCommitIdle ==
    \A root \in Hash, u1 \in BOOLEAN, u2 \in BOOLEAN :
        LET c1 == Commit(DB, root, u1, 0)
            c2 == Commit(c1.d, root, u2, 0)
        IN /\ ~c1.err /\ ~c2.err
           /\ c1.d.freshNodes = {}
           /\ c2.wrote = {}
           /\ c2.d.diskdb = c1.d.diskdb
           /\ c2.d.dirties = c1.d.dirties
           /\ c2.d.oldest = c1.d.oldest /\ c2.d.newest = c1.d.newest
           /\ c2.d = c1.d

\* A Commit succeeded right after a successful Commit of the same root, whose
\* nodes the disk and the Node Store hold.
C27_Witness ==
    /\ last.op = "Commit" /\ ~last.err /\ last.again
    /\ last.root \in DOMAIN diskdb /\ last.root \in DOMAIN dirties
    /\ Cardinality(NonMeta(DB)) > 1
    /\ freshNodes = {}

\* The disk keys whose content differs between two disks.
DiskChanged(a, b) ==
    {k \in DOMAIN a \cup DOMAIN b :
        ~(k \in DOMAIN a /\ k \in DOMAIN b /\ a[k] = b[k])}

\* C28: Commit(root, report, uncache = false) leaves the keys of the Node
\* Store, the flush list (db.oldest, db.newest and every link), dirtiesSize
\* and childrenSize as they are, whether or not a Write fails. When it
\* succeeds its only effects are: the fresh nodes its walk reaches from root
\* are on disk with their bytes and in the clean cache, nothing else on the
\* disk or in the clean cache changes but fresh nodes below root and the
\* keys of the tracked preimages, the preimage map is empty and the fresh set
\* is reset.
C28_CommitKeepsStore ==
    \A root \in Hash, f \in FailAtsPre :
        LET c == Commit(DB, root, FALSE, f)
        IN /\ c.d.dirties = dirties
           /\ c.d.oldest = oldest /\ c.d.newest = newest
           /\ c.d.dirtiesSize = dirtiesSize /\ c.d.childrenSize = childrenSize
           /\ ~c.err =>
                 /\ \A h \in FreshReach(DB, root) :
                       /\ h \in DOMAIN c.d.diskdb /\ c.d.diskdb[h] = rlp(dirties[h])
                       /\ h \in DOMAIN c.d.cleans.m /\ c.d.cleans.m[h] = rlp(dirties[h])
                 /\ DiskChanged(diskdb, c.d.diskdb) \subseteq
                        (Reach(DB, root) \cap freshNodes)
                            \cup {preimageKey(h) : h \in DOMAIN preimages.m}
                 /\ DiskChanged(cleans.m, c.d.cleans.m) \subseteq
                        Reach(DB, root) \cap freshNodes
                 /\ c.d = [DB EXCEPT !.diskdb = c.d.diskdb, !.cleans = c.d.cleans,
                                     !.preimages = EmptyMap, !.preimagesSize = 0,
                                     !.freshNodes = {}]

\* A Commit that keeps the nodes cached succeeded: its root is on disk, in the
\* clean cache and still in the Node Store with another entry, and the
\* preimages tracked before it are no longer in memory.
C28_Witness ==
    /\ last.op = "Commit" /\ ~last.err /\ ~last.uncache /\ ~last.again
    /\ last.root \in DOMAIN dirties /\ last.root \in DOMAIN diskdb
    /\ last.root \in DOMAIN cleans.m
    /\ oldest # newest
    /\ last.before # <<>> /\ preimages.m = <<>>

\* How many Writes the preimages of a Commit take.
PreimageWrites(d) ==
    IF ValueSize(WritePreimages(<<>>, d.preimages.m)) > IdealBatchSize THEN 2 ELSE 1

\* C29: after a successful Commit every preimage tracked before the call is
\* on disk and is what preimage(hash) returns, the preimage map is empty and
\* preimagesSize is 0. A Commit whose Write of the preimages fails returns
\* the error, and a Commit that returns an error leaves the preimage map and
\* preimagesSize as they were.
C29_PreimagesDurable ==
    \A root \in Hash, u \in BOOLEAN, f \in FailAtsPre :
        LET c == Commit(DB, root, u, f)
        IN /\ ~c.err =>
                 /\ \A h \in DOMAIN preimages.m :
                       /\ ReadPreimage(c.d.diskdb, h) = preimages.m[h]
                       /\ preimage(c.d, h) = preimages.m[h]
                 /\ c.d.preimages = EmptyMap
                 /\ c.d.preimagesSize = 0
           /\ f \in 1 .. PreimageWrites(DB) => c.err
           /\ c.err => /\ c.d.preimages = preimages
                       /\ c.d.preimagesSize = preimagesSize

\* A Commit succeeded on a store that tracked both preimages, more than one
\* batch takes: the disk returns both and the map is empty.
C29_Witness ==
    /\ last.op = "Commit" /\ ~last.err
    /\ DOMAIN last.before = PreHash
    /\ preimages = EmptyMap /\ preimagesSize = 0
    /\ \A h \in PreHash : preimage(DB, h) = PreimageOf[h]

\* C30: work the time limit leaves undone is deferred, not lost. When a
\* Dereference(root) is cut short by the time check, a later Dereference(root)
\* that ends in time, at the same version and with no other call in between,
\* removes every node that one Dereference(root) ending in time would have
\* removed.
C30_DeferredNotLost ==
    ~panic =>
        \A root \in Hash, b \in Budgets \ {NoLimit} :
            LET whole == Dereference(DB, root, NoLimit)
                cut == Dereference(DB, root, b)
                later == Dereference(cut, root, NoLimit)
            IN ~later.panic /\ ~whole.panic =>
                  DOMAIN later.dirties \subseteq DOMAIN whole.dirties

\* The time budgets at which a walk is cut: before the first node, after one,
\* after two.
CutBudgets == 0 .. 2

\* Whether the time check of Dereference(root) fires when the clock passes
\* the limit after b nodes: the walk has a node left to enter.
Aborted(d, root, b) ==
    /\ root # Zero
    /\ dereference([d |-> d, budget |-> b + 1, cleared |-> {}], root).budget = 0

\* The flush list of d, walked from db.oldest, meets every entry but the
\* meta-root once and ends on db.newest.
ListCovers(d) ==
    LET w == FlushList(d)
    IN /\ Range(w) = NonMeta(d)
       /\ Len(w) = Cardinality(NonMeta(d))
       /\ w # <<>> => w[Len(w)] = d.newest

\* No link of d names a hash the Node Store lacks.
LinksHeld(d) ==
    /\ d.oldest \in DOMAIN d.dirties /\ d.newest \in DOMAIN d.dirties
    /\ \A x \in DOMAIN d.dirties :
          /\ d.dirties[x].flushPrev \in DOMAIN d.dirties
          /\ d.dirties[x].flushNext \in DOMAIN d.dirties

\* The flush list of d is a well-formed doubly linked list: when db.oldest is
\* not zero, db.oldest and db.newest are entries, nothing precedes the first
\* and nothing follows the last, and every entry's successor is an entry that
\* names it as its predecessor.
WellFormed(d) ==
    d.oldest # Zero =>
        /\ d.oldest \in DOMAIN d.dirties /\ d.newest \in DOMAIN d.dirties
        /\ d.dirties[d.oldest].flushPrev = Zero
        /\ d.dirties[d.newest].flushNext = Zero
        /\ \A x \in DOMAIN d.dirties :
              LET y == d.dirties[x].flushNext
              IN y # Zero => y \in DOMAIN d.dirties /\ d.dirties[y].flushPrev = x

\* What the state d left by a Dereference(root) cut after b nodes has to
\* show: the walk from db.oldest meets every remaining entry but the meta-root
\* once, no link names a removed entry, dirtiesSize is the sum over the
\* remaining entries, and the nodes removed by the time of the cut are
\* removed (a walk cut one node earlier removed no node this one kept).
Consistent(d, root, b) ==
    /\ ~d.panic
    /\ ListCovers(d)
    /\ LinksHeld(d)
    /\ d.dirtiesSize = SumSizes(d, NonMeta(d))
    /\ DOMAIN d.dirties \subseteq DOMAIN dirties
    /\ b > 0 => DOMAIN d.dirties \subseteq DOMAIN Dereference(DB, root, b - 1).dirties

\* C31: a Dereference the time check cuts short, at whatever point of its
\* walk, leaves a consistent state.
C31_AbortConsistent ==
    ~panic =>
        \A root \in Hash, b \in CutBudgets :
            Aborted(DB, root, b) => Consistent(Dereference(DB, root, b), root, b)

\* The cut itself breaks nothing: from a state whose flush list is well
\* formed and whose dirtiesSize is exact, the state it leaves is consistent
\* and its flush list well formed.
C31_AbortKeeps ==
    ~panic /\ ListCovers(DB) /\ WellFormed(DB) /\ C3_DirtiesSizeExact =>
        \A root \in Hash, b \in CutBudgets :
            Aborted(DB, root, b) =>
                /\ Consistent(Dereference(DB, root, b), root, b)
                /\ WellFormed(Dereference(DB, root, b))

\* C32: Commit writes in post-order. Whatever Write fails, and so at every
\* point of a Commit between two Writes and after its end, every fresh Node
\* Store node the walk reaches below a node this Commit has written to disk is
\* on disk too, with its bytes: a parent is never on disk before its fresh
\* children.
C32_CommitPostOrder ==
    ~panic =>
        \A root \in Hash, u \in BOOLEAN, f \in FailAts :
            LET c == Commit(DB, root, u, f)
            IN \A h \in c.wrote :
                  \A g \in FreshReach(DB, h) :
                      /\ g \in DOMAIN c.d.diskdb
                      /\ c.d.diskdb[g] = rlp(dirties[g])

\* A Commit of the root 1 failed on a Write in the middle of its walk: its
\* fresh children 2 and 3 are on disk, the root, still fresh, is not.
C32_Witness ==
    /\ last = [op |-> "Commit", err |-> TRUE]
    /\ freshNodes = {1, 2, 3}
    /\ {2, 3} \subseteq DOMAIN diskdb
    /\ 1 \in DOMAIN dirties /\ 1 \notin DOMAIN diskdb

\* ------------------------------------------------------ the store pruned
\* A run of single calls that build and prune a store without a clean cache,
\* in which last keeps, for every Dereference, its root and the entries it
\* removed, also when it removed none.
DereferenceTry(root, budget) ==
    /\ ~panic
    /\ \E d \in {Dereference(DB, root, budget)} :
          /\ Store(d)
          /\ last' = [op |-> "Dereference", err |-> FALSE, root |-> root,
                      removed |-> DOMAIN dirties \ DOMAIN d.dirties]
    /\ UNCHANGED inserts
    /\ Alone

NextPrune ==
    \/ \E h \in Hash, fresh \in BOOLEAN : Insert(h, fresh)
    \/ \E p \in RefPairs : Reference(p[1], p[2])
    \/ \E h \in Hash : ReferenceVersion(h)
    \/ IncrVersionCall
    \/ \E h \in Hash, b \in Budgets : DereferenceTry(h, b)

SpecPrune == Init /\ [][NextPrune]_vars

\* The entries a walk of dereference from h meets on paths of entries that
\* are all stale and not fresh: the entries it may remove.
RECURSIVE StaleReach(_, _)
StaleReach(d, h) ==
    IF h \notin DOMAIN d.dirties \/ h \in d.freshNodes \/ ~isStale(d, h) THEN {}
    ELSE {h} \cup UNION {StaleReach(d, c) : c \in Range(forChilds(d.dirties[h]))}

\* C33: Dereference does not descend below a node it keeps. A node the walk
\* reaches that is fresh or carries the current version stays in the Node
\* Store, and so does every node the walk could reach only through kept
\* nodes, stale and not fresh though it be: what a call removes lies on paths
\* from the root made of stale, non-fresh entries only, and a call that ends
\* in time removes all of those.
C33_KeptSubtreeStays ==
    ~panic =>
        \A root \in Hash, b \in Budgets :
            LET d == Dereference(DB, root, b)
            IN /\ DOMAIN dirties \ DOMAIN d.dirties \subseteq StaleReach(DB, root)
               /\ b = NoLimit =>
                     DOMAIN dirties \ DOMAIN d.dirties = StaleReach(DB, root)
               /\ \A h \in DOMAIN d.dirties :
                     /\ d.dirties[h].node = dirties[h].node
                     /\ d.dirties[h].version = dirties[h].version
                     /\ d.dirties[h].children = dirties[h].children

\* Dereference(2) met the root 2 at the current version and removed nothing:
\* the blob 3 below it, stale and not fresh, is still in the Node Store.
C33_Witness ==
    /\ last.op = "Dereference" /\ last.root = 2 /\ last.removed = {}
    /\ 2 \in DOMAIN dirties /\ 2 \notin freshNodes
    /\ dirties[2].version = nodeVersion
    /\ 3 \in DOMAIN dirties /\ Edges(DB, 3, 2) = 1
    /\ 3 \notin freshNodes /\ dirties[3].version < nodeVersion

\* C34: DereferenceDB(root) appends one set to the useless queue, which holds
\* exactly the hashes of the non-raw nodes the call removed from the Node
\* Store, each of them deleted from the clean cache too; no hash of a node
\* that was not removed is in it. Dereference(root) leaves the queue as it is.
C34_UselessSetExact ==
    ~panic =>
        \A root \in Hash, b \in Budgets :
            LET d == DereferenceDB(DB, root, b)
                removed == DOMAIN dirties \ DOMAIN d.dirties
                n == Len(d.useless)
            IN /\ ~d.panic =>
                     /\ n = Len(useless) + 1
                     /\ SubSeq(d.useless, 1, n - 1) = useless
                     /\ d.useless[n] = {h \in removed : dirties[h].node.t # "raw"}
                     /\ \A h \in d.useless[n] : h \notin DOMAIN d.cleans.m
               /\ Dereference(DB, root, b).useless = useless

\* DereferenceDB(2) removed the leaf 2 and the raw blob 3 below it: the set
\* it queued holds 2 alone, and the clean cache does not hold 2.
C34_Witness ==
    /\ last = [op |-> "DereferenceDB", err |-> FALSE]
    /\ useless = << {2} >>
    /\ {2, 3} \cap DOMAIN dirties = {}
    /\ {2, 3} \cap DOMAIN diskdb = {}
    /\ 2 \notin DOMAIN cleans.m
    /\ inserts = 2

\* C35: when every insert of a new hash comes with insertFreshNode, a
\* Commit(root) that returns nil leaves on disk every node that was in the
\* Node Store and reachable from root through Node Store entries before the
\* call, whatever roots were committed before it.
C35_CommittedOnDisk ==
    ~panic =>
        \A root \in Hash, u \in BOOLEAN :
            LET c == Commit(DB, root, u, 0)
            IN ~c.err =>
                  \A h \in Reach(DB, root) :
                      h \in DOMAIN c.d.diskdb /\ c.d.diskdb[h] = rlp(dirties[h])

\* C36: every node CapNode(limit) removes from the Node Store is on disk, and
\* Node(hash) still returns it after the call.
C36_CapNodeKeepsBytes ==
    ~panic =>
        \A l \in Limits :
            LET d == CapNode(DB, l)
            IN ~d.panic =>
                  \A h \in DOMAIN dirties \ DOMAIN d.dirties :
                      /\ h \in DOMAIN d.diskdb
                      /\ ~Node(d, h).err
                      /\ Node(d, h).enc = Content[h]

\* ------------------------------------------------- the useless queue
\* DereferenceDB calls of one caller beside the sweeps of another. The append
\* of DereferenceDB (line 706) runs after the Unlock: it reads db.useless and
\* stores the longer queue in two steps, between which UselessGC and
\* ResetUseless, which hold the lock from start to end, can run. last counts
\* the sets the calls appended and the sets the sweeps and resets took off.

\* How many DereferenceDB calls are made.
MaxAppends == 2

Queue(appended, taken) ==
    [op |-> "queue", err |-> FALSE, appended |-> appended, taken |-> taken]

InitQueue ==
    /\ \E committed \in BOOLEAN : Holds(BuiltDB(committed))
    /\ inserts = MaxInserts
    /\ last = Queue(0, 0)
    /\ rw = Unlocked
    /\ procs = [p \in Procs |-> Idle]

\* DereferenceDB(root) is called, for the first time or again.
QueueStart(root) ==
    /\ ~panic
    /\ procs[Writer].pc \in {"idle", "done"}
    /\ last.appended < MaxAppends
    /\ Move(Writer, [Idle EXCEPT !.pc = "lock", !.op = "DereferenceDB", !.arg = root])
    /\ UNCHANGED <<dbvars, rw>> /\ Quietly

\* append, first half: the slice db.useless is read.
AppendRead ==
    /\ At(Writer, "append")
    /\ Move(Writer, [procs[Writer] EXCEPT !.pc = "store", !.seen = useless])
    /\ UNCHANGED <<dbvars, rw>> /\ Quietly

\* append, second half: the queue read, with the new set behind it, is stored
\* in db.useless. A slot a sweep emptied in the meantime comes back as it was
\* read when append copied the slice to grow it, and as nil when it did not.
AppendStore ==
    /\ At(Writer, "store")
    /\ \E copied \in BOOLEAN :
          LET seen == procs[Writer].seen
              stale == Len(seen) - Len(useless)
              old == [i \in 1 .. Len(seen) |->
                         IF i <= stale /\ ~copied THEN {} ELSE seen[i]]
          IN \E d \in {[DB EXCEPT !.useless = Append(old, procs[Writer].cleared)]} :
                Store(d)
    /\ Move(Writer, [procs[Writer] EXCEPT !.pc = "done", !.seen = <<>>])
    /\ last' = Queue(last.appended + 1, last.taken)
    /\ UNCHANGED <<inserts, rw>>

\* UselessGC(num), from Lock to Unlock.
SweepCall(num) ==
    /\ ~panic
    /\ CanLock
    /\ useless # <<>>
    /\ \E d \in {UselessGC(DB, num, FALSE)} :
          /\ Store(d)
          /\ last' = Queue(last.appended, last.taken + Len(useless) - Len(d.useless))
    /\ UNCHANGED <<inserts, rw, procs>>

\* ResetUseless, from Lock to Unlock.
ResetCall ==
    /\ ~panic
    /\ CanLock
    /\ useless # <<>>
    /\ Store(ResetUseless(DB))
    /\ last' = Queue(last.appended, last.taken + Len(useless))
    /\ UNCHANGED <<inserts, rw, procs>>

NextQueue ==
    \/ \E root \in Hash : QueueStart(root)
    \/ DerefLock
    \/ DerefVisit
    \/ DerefDrop
    \/ DerefUnlock
    \/ AppendRead
    \/ AppendStore
    \/ SweepCall(1)
    \/ ResetCall

SpecQueue == InitQueue /\ [][NextQueue]_vars

\* C37: the append of DereferenceDB is atomic with respect to UselessGC and
\* ResetUseless. Under every interleaving each set a DereferenceDB appended
\* is either still in the queue or was taken off by a sweep or a reset once,
\* and no set taken off is in the queue again: the queue holds as many sets
\* as were appended and not yet taken off.
C37_AppendAtomic ==
    Len(useless) + last.taken = last.appended

\* The children tracking of the entries of a Node Store, as reference counts
\* it: 34 bytes for every distinct key of every children map and 48 bytes for
\* every children map of an entry other than the meta-root.
RECURSIVE ChildrenTracking(_, _)
ChildrenTracking(d, S) ==
    IF S = {} THEN 0
    ELSE LET h == CHOOSE x \in S : TRUE
             c == d.dirties[h].children
         IN ChildEntrySize * MapLen(c)
              + (IF h # Zero /\ ~c.isnil THEN cachedNodeChildrenSize ELSE 0)
              + ChildrenTracking(d, S \ {h})

\* C38: childrenSize accounting is exact. After any sequence of reference,
\* Cap, Commit and Dereference calls childrenSize is, summed over the entries
\* of the Node Store, 34 bytes for each distinct key of each children map
\* plus 48 bytes for each entry other than the meta-root whose children map
\* exists.
C38_ChildrenSizeExact ==
    ~panic => childrenSize = ChildrenTracking(DB, DOMAIN dirties)

\* C39: the flush list is a well-formed doubly linked list. After any sequence
\* of insert, Cap, CapNode, Commit and Dereference calls, whenever oldest is
\* not the zero hash, oldest and newest are keys of the Node Store, the
\* flushPrev of oldest and the flushNext of newest are the zero hash, and
\* every entry x whose flushNext is a hash y other than zero has y in the
\* Node Store with y.flushPrev = x.
C39_FlushListWellFormed ==
    ~panic => WellFormed(DB)

\* ------------------------------------------------------ the size field
\* Nodes of every size class stored and removed again. insert keeps the size
\* in a uint16 and adds HashLength + entry.size, a uint16 sum, to dirtiesSize;
\* the removals subtract HashLength + int(node.size). The sizes a caller
\* passes here are the ends of 0..65535 and the sizes around 65536 - 32.
Sizes == {0, 3, 65503, 65504, 65535}

Sized(op, err, size, grew) ==
    [op |-> op, err |-> err, size |-> size, grew |-> grew]

InitSize ==
    /\ Holds(NewDatabaseWithConfig(FALSE, FALSE))
    /\ inserts = 0
    /\ last = Sized("quiet", FALSE, 0, 0)
    /\ rw = Unlocked
    /\ procs = [p \in Procs |-> Idle]

\* insert(hash, size, node) and insertFreshNode(hash) of a new hash.
InsertSized(h, size) ==
    /\ ~panic
    /\ inserts < MaxStored
    /\ h \notin DOMAIN dirties
    /\ \E d \in {insert(DB, h, size, TrieNode(h))} :
          /\ Store(insertFreshNode(d, h))
          /\ last' = Sized("insert", FALSE, size, d.dirtiesSize - dirtiesSize)
    /\ inserts' = inserts + 1
    /\ Alone

\* Reference(root, common.Hash{}): a stored node becomes a root.
RootSized(root) ==
    /\ ~panic
    /\ root \in DOMAIN dirties
    /\ root \notin MapKeys(dirties[Zero].children)
    /\ \E d \in {reference(DB, root, Zero)} : Store(d)
    /\ UNCHANGED <<inserts, last>>
    /\ Alone

\* Cap(0): every entry is written and removed.
CapSized ==
    /\ ~panic
    /\ NonMeta(DB) # {}
    /\ \E r \in {Cap(DB, 0, 0)} :
          Store(r.d) /\ last' = Sized("Cap", r.err, 0, 0)
    /\ UNCHANGED inserts
    /\ Alone

\* Commit(root, false, true): the fresh nodes below root are written and
\* removed.
CommitSized(root) ==
    /\ ~panic
    /\ root \in DOMAIN dirties
    /\ \E r \in {Commit(DB, root, TRUE, 0)} :
          Store(r.d) /\ last' = Sized("Commit", r.err, 0, 0)
    /\ UNCHANGED inserts
    /\ Alone

\* Dereference(root) of a root, within the time limit.
DereferenceSized(root) ==
    /\ ~panic
    /\ root \in MapKeys(dirties[Zero].children)
    /\ \E d \in {Dereference(DB, root, NoLimit)} :
          Store(d) /\ last' = Sized("Dereference", FALSE, 0, 0)
    /\ UNCHANGED inserts
    /\ Alone

NextSize ==
    \/ \E h \in Hash, size \in Sizes : InsertSized(h, size)
    \/ \E h \in Hash : RootSized(h)
    \/ CapSized
    \/ \E h \in Hash : CommitSized(h)
    \/ \E h \in Hash : DereferenceSized(h)

SpecSize == InitSize /\ [][NextSize]_vars

\* C40: for every node size in 0..65535 an insert of a new node adds exactly
\* 32 + size to dirtiesSize, with no 16-bit wrap-around, and Cap, Commit with
\* uncache and Dereference subtract the same amount when they remove the
\* node: dirtiesSize is the sum of 32 + size over the entries stored, and an
\* insert followed by the removal leaves dirtiesSize as it was.
C40_SizeRoundTrip ==
    ~panic =>
        /\ last.op = "insert" => last.grew = HashLength + last.size
        /\ dirtiesSize = SumSizes(DB, NonMeta(DB))
====
